---- MODULE Spec2Model ----
(***************************************************************************)
(* Model of the query tool of postgres-mcp (src/src/tools/schemas.ts,      *)
(* lines 68-462): the SQL safety validator, the pagination rewriter, the   *)
(* parameter check and the single asynchronous call into the pg pool.      *)
(*                                                                         *)
(* A SQL text is a sequence of symbols.  A symbol is a lexeme, a comment   *)
(* or a whitespace character; the text the program sees is the             *)
(* concatenation of the symbols.  String operations of the source          *)
(* (trim, toUpperCase, split(/\s+/), startsWith, includes, the /;+$/       *)
(* replacement) are computed on that sequence.                             *)
(***************************************************************************)
EXTENDS Integers, Sequences, FiniteSets, TLC

VARIABLES env, config, calls, explain, http, manager

vars == <<env, config, calls, explain, http, manager>>

(***************************************************************************)
(* Optional values (a JavaScript property that may be undefined).          *)
(***************************************************************************)
None == <<>>

Some(v) == <<v>>

IsSome(o) == Len(o) = 1

(***************************************************************************)
(* Symbols and String.prototype.toUpperCase on them.                       *)
(***************************************************************************)
WS == {" ", "\n"}

BlockComment == "/*c*/"

LineComment == "--"

UpperOf ==
     "select" :> "SELECT" @@ "from" :> "FROM" @@ "where" :> "WHERE"
  @@ "update" :> "UPDATE" @@ "set" :> "SET" @@ "delete" :> "DELETE"
  @@ "insert" :> "INSERT" @@ "into" :> "INTO" @@ "values" :> "VALUES"
  @@ "drop" :> "DROP" @@ "dRoP" :> "DROP" @@ "table" :> "TABLE"
  @@ "vacuum" :> "VACUUM" @@ "pragma" :> "PRAGMA"
  @@ "true" :> "TRUE" @@ "false" :> "FALSE" @@ "and" :> "AND"
  @@ "explain" :> "EXPLAIN" @@ "analyze" :> "ANALYZE"
  @@ "with" :> "WITH" @@ "as" :> "AS"
  @@ "merge" :> "MERGE" @@ "upsert" :> "UPSERT"
  @@ "limit" :> "LIMIT" @@ "offset" :> "OFFSET"
  @@ "count" :> "COUNT" @@ "group" :> "GROUP" @@ "by" :> "BY"
  @@ "users" :> "USERS" @@ "id" :> "ID" @@ "age" :> "AGE" @@ "c" :> "C"
  @@ "rate_limit" :> "RATE_LIMIT" @@ "foo" :> "FOO"
  @@ "created_at" :> "CREATED_AT" @@ "json" :> "JSON"
  @@ "'a'" :> "'A'" @@ "/*c*/" :> "/*C*/"

\* String.prototype.toUpperCase, one symbol
ToUpperSym(s) == IF s \in DOMAIN UpperOf THEN UpperOf[s] ELSE s

\* String.prototype.toUpperCase, whole text
ToUpperCase(t) == [i \in 1..Len(t) |-> ToUpperSym(t[i])]

RECURSIVE TrimStart(_)
TrimStart(t) ==
  IF t = <<>> THEN <<>>
  ELSE IF Head(t) \in WS THEN TrimStart(Tail(t)) ELSE t

RECURSIVE TrimEnd(_)
TrimEnd(t) ==
  IF t = <<>> THEN <<>>
  ELSE IF t[Len(t)] \in WS THEN TrimEnd(SubSeq(t, 1, Len(t) - 1)) ELSE t

\* String.prototype.trim
Trim(t) == TrimEnd(TrimStart(t))

\* text.split(/\s+/)[0] on a trimmed text: the symbols of the first
\* whitespace-delimited word
RECURSIVE FirstWordSyms(_)
FirstWordSyms(t) ==
  IF t = <<>> \/ Head(t) \in WS THEN <<>>
  ELSE <<Head(t)>> \o FirstWordSyms(Tail(t))

\* the first word as one string; a word made of several symbols is no
\* keyword and is rendered by a value outside every keyword list
FirstWord(t) ==
  LET w == FirstWordSyms(t)
  IN IF Len(w) = 1 THEN w[1] ELSE "<compound>"

\* text.replace(/;+$/, '')
RECURSIVE StripSemis(_)
StripSemis(t) ==
  IF t = <<>> THEN <<>>
  ELSE IF t[Len(t)] = ";" THEN StripSemis(SubSeq(t, 1, Len(t) - 1)) ELSE t

(***************************************************************************)
(* sqlParser.astify (node-sql-parser, PostgreSQL grammar) on the part of   *)
(* SQL the model's texts use.  The lexer skips whitespace and comments;    *)
(* keywords are matched without regard to case; literals and identifiers   *)
(* keep their spelling.  A parse result is [ok, pos, node]; pos is the     *)
(* index of the first symbol not consumed.                                 *)
(***************************************************************************)
RECURSIVE DropLine(_)
DropLine(t) ==
  IF t = <<>> THEN <<>>
  ELSE IF Head(t) = "\n" THEN Tail(t) ELSE DropLine(Tail(t))

RECURSIVE Lex(_)
Lex(t) ==
  IF t = <<>> THEN <<>>
  ELSE IF Head(t) \in WS \/ Head(t) = BlockComment THEN Lex(Tail(t))
  ELSE IF Head(t) = LineComment THEN Lex(DropLine(Tail(t)))
  ELSE <<Head(t)>> \o Lex(Tail(t))

\* numeric literals: the decimal numerals up to MaxNumeral
MaxNumeral == 500

Numbers == {ToString(n) : n \in 0..MaxNumeral}

NumVal == [tok \in Numbers |-> CHOOSE n \in 0..MaxNumeral : ToString(n) = tok]

SqStrings == {"'1'", "'2'", "'a'"}

DqIdents == {"\"1\"", "\"2\""}

Idents == {"users", "id", "age", "c", "rate_limit", "created_at"}

Fail == [ok |-> FALSE, pos |-> 0, node |-> [type |-> "none"]]

Ok(p, n) == [ok |-> TRUE, pos |-> p, node |-> n]

TokAt(toks, i) == IF i >= 1 /\ i <= Len(toks) THEN toks[i] ELSE "<eof>"

KwAt(toks, i, kw) == ToUpperSym(TokAt(toks, i)) = kw

BinaryExpr(op, l, r) ==
  [type |-> "binary_expr", operator |-> op, left |-> l, right |-> r]

RECURSIVE ParsePrimary(_, _), ParseAdd(_, _), ParseCmp(_, _), ParseExpr(_, _)
\* "( expr )", e the result for expr
Parenthesised(toks, e) ==
  IF e.ok /\ TokAt(toks, e.pos) = ")" THEN Ok(e.pos + 1, e.node) ELSE Fail

PrimaryOf(toks, i, tok) ==
  IF tok \in Numbers
    THEN Ok(i + 1, [type |-> "number", value |-> NumVal[tok]])
  ELSE IF tok \in SqStrings
    THEN Ok(i + 1, [type |-> "single_quote_string", value |-> tok])
  ELSE IF tok \in DqIdents
    THEN Ok(i + 1, [type |-> "column_ref",
                    column |-> [isString |-> FALSE,
                                expr |-> [type |-> "double_quote_string",
                                          value |-> tok]]])
  ELSE IF tok \in Idents
    THEN Ok(i + 1, [type |-> "column_ref",
                    column |-> [isString |-> TRUE, str |-> tok]])
  ELSE IF ToUpperSym(tok) = "TRUE"
    THEN Ok(i + 1, [type |-> "bool", value |-> TRUE])
  ELSE IF ToUpperSym(tok) = "FALSE"
    THEN Ok(i + 1, [type |-> "bool", value |-> FALSE])
  ELSE IF tok = "$1"
    THEN Ok(i + 1, [type |-> "var", name |-> 1])
  ELSE IF tok = "("
    THEN Parenthesised(toks, ParseExpr(toks, i + 1))
  ELSE Fail

ParsePrimary(toks, i) == PrimaryOf(toks, i, TokAt(toks, i))

\* the right operand r of an operator op after the left operand l
RightOperand(op, l, r) ==
  IF r.ok THEN Ok(r.pos, BinaryExpr(op, l.node, r.node)) ELSE Fail

\* primary ["+" primary], l the result for the first primary
AddOf(toks, l) ==
  IF ~l.ok THEN Fail
  ELSE IF TokAt(toks, l.pos) = "+"
    THEN RightOperand("+", l, ParsePrimary(toks, l.pos + 1))
  ELSE l

ParseAdd(toks, i) == AddOf(toks, ParsePrimary(toks, i))

\* add [("=" | ">") add]
CmpOf(toks, l) ==
  IF ~l.ok THEN Fail
  ELSE IF TokAt(toks, l.pos) \in {"=", ">"}
    THEN RightOperand(TokAt(toks, l.pos), l, ParseAdd(toks, l.pos + 1))
  ELSE l

ParseCmp(toks, i) == CmpOf(toks, ParseAdd(toks, i))

\* cmp ["AND" expr]
ExprOf(toks, l) ==
  IF ~l.ok THEN Fail
  ELSE IF KwAt(toks, l.pos, "AND")
    THEN RightOperand("AND", l, ParseExpr(toks, l.pos + 1))
  ELSE l

ParseExpr(toks, i) == ExprOf(toks, ParseCmp(toks, i))

\* a WHERE clause with the parsed expression e: [ok, pos, where]
WhereOf(e) ==
  IF e.ok THEN [ok |-> TRUE, pos |-> e.pos, where |-> Some(e.node)]
  ELSE [ok |-> FALSE, pos |-> 0, where |-> None]

\* optional "WHERE expr"; where is None when absent
ParseWhere(toks, i) ==
  IF KwAt(toks, i, "WHERE") THEN WhereOf(ParseExpr(toks, i + 1))
  ELSE [ok |-> TRUE, pos |-> i, where |-> None]

\* one entry of a select list: "*", COUNT(*), a column or a number
ParseSelectItem(toks, i) ==
  IF TokAt(toks, i) = "*" THEN i + 1
  ELSE IF /\ KwAt(toks, i, "COUNT") /\ TokAt(toks, i + 1) = "("
          /\ TokAt(toks, i + 2) = "*" /\ TokAt(toks, i + 3) = ")" THEN i + 4
  ELSE IF TokAt(toks, i) \in Idents \cup Numbers THEN i + 1
  ELSE 0

\* optional "kw arg" with arg in the set args; the position after it
SkipOpt(toks, i, kw, args) ==
  IF KwAt(toks, i, kw) /\ TokAt(toks, i + 1) \in args THEN i + 2 ELSE i

\* optional "GROUP BY c"; the position after it
SkipGroupBy(toks, i) ==
  IF KwAt(toks, i, "GROUP") /\ KwAt(toks, i + 1, "BY")
     /\ TokAt(toks, i + 2) \in Idents
    THEN i + 3 ELSE i

\* [GROUP BY c] [LIMIT n] [OFFSET n] after the WHERE clause w
SelectTail(toks, w) ==
  IF ~w.ok THEN Fail
  ELSE Ok(SkipOpt(toks,
                  SkipOpt(toks, SkipGroupBy(toks, w.pos), "LIMIT", Numbers),
                  "OFFSET", Numbers),
          [type |-> "select", where |-> w.where])

\* [FROM t] [WHERE e] ... after the select list that ends before i1
SelectFrom(toks, i1) ==
  IF i1 = 0 THEN Fail
  ELSE SelectTail(toks, ParseWhere(toks, SkipOpt(toks, i1, "FROM", Idents)))

\* SELECT item [FROM t] [WHERE e] [GROUP BY c] [LIMIT n] [OFFSET n]
ParseSelectCore(toks, i) ==
  IF ~KwAt(toks, i, "SELECT") THEN Fail
  ELSE SelectFrom(toks, ParseSelectItem(toks, i + 1))

\* ") select" after the common table expression cte
SelectAfterCte(toks, cte) ==
  IF cte.ok /\ TokAt(toks, cte.pos) = ")"
    THEN ParseSelectCore(toks, cte.pos + 1)
    ELSE Fail

\* [WITH c AS ( select )] select
ParseSelect(toks, i) ==
  IF KwAt(toks, i, "WITH")
    THEN IF /\ TokAt(toks, i + 1) \in Idents /\ KwAt(toks, i + 2, "AS")
            /\ TokAt(toks, i + 3) = "("
           THEN SelectAfterCte(toks, ParseSelectCore(toks, i + 4))
           ELSE Fail
    ELSE ParseSelectCore(toks, i)

\* ")" after the inserted value v
InsertOf(toks, v) ==
  IF v.ok /\ TokAt(toks, v.pos) = ")"
    THEN Ok(v.pos + 1, [type |-> "insert", where |-> None])
    ELSE Fail

\* INSERT INTO t VALUES ( primary )
ParseInsert(toks, i) ==
  IF /\ KwAt(toks, i, "INSERT") /\ KwAt(toks, i + 1, "INTO")
     /\ TokAt(toks, i + 2) \in Idents /\ KwAt(toks, i + 3, "VALUES")
     /\ TokAt(toks, i + 4) = "("
    THEN InsertOf(toks, ParsePrimary(toks, i + 5))
    ELSE Fail

\* a statement of the given type that ends with the WHERE clause w
WithWhere(type, w) ==
  IF w.ok THEN Ok(w.pos, [type |-> type, where |-> w.where]) ELSE Fail

\* [WHERE e] after the assigned value v
UpdateOf(toks, v) ==
  IF v.ok THEN WithWhere("update", ParseWhere(toks, v.pos)) ELSE Fail

\* UPDATE t SET c = primary [WHERE e]
ParseUpdate(toks, i) ==
  IF /\ KwAt(toks, i, "UPDATE") /\ TokAt(toks, i + 1) \in Idents
     /\ KwAt(toks, i + 2, "SET") /\ TokAt(toks, i + 3) \in Idents
     /\ TokAt(toks, i + 4) = "="
    THEN UpdateOf(toks, ParsePrimary(toks, i + 5))
    ELSE Fail

\* DELETE FROM t [WHERE e]
ParseDelete(toks, i) ==
  IF /\ KwAt(toks, i, "DELETE") /\ KwAt(toks, i + 1, "FROM")
     /\ TokAt(toks, i + 2) \in Idents
    THEN WithWhere("delete", ParseWhere(toks, i + 3))
    ELSE Fail

\* DROP TABLE t
ParseDrop(toks, i) ==
  IF /\ KwAt(toks, i, "DROP") /\ KwAt(toks, i + 1, "TABLE")
     /\ TokAt(toks, i + 2) \in Idents
    THEN Ok(i + 3, [type |-> "drop", where |-> None])
    ELSE Fail

StatementOf(toks, i, kw) ==
  IF kw \in {"SELECT", "WITH"} THEN ParseSelect(toks, i)
  ELSE IF kw = "INSERT" THEN ParseInsert(toks, i)
  ELSE IF kw = "UPDATE" THEN ParseUpdate(toks, i)
  ELSE IF kw = "DELETE" THEN ParseDelete(toks, i)
  ELSE IF kw = "DROP" THEN ParseDrop(toks, i)
  ELSE Fail

ParseStatement(toks, i) == StatementOf(toks, i, ToUpperSym(TokAt(toks, i)))

\* statement (";" statement)* [";"] up to the end of the text:
\* [ok, ast], ast the sequence of statement nodes
RECURSIVE ParseBatch(_, _)
\* the statements after the statement node, rest the result for them
BatchCons(node, rest) ==
  IF rest.ok THEN [ok |-> TRUE, ast |-> <<node>> \o rest.ast]
  ELSE [ok |-> FALSE, ast |-> <<>>]

\* what follows the statement s
BatchOf(toks, s) ==
  IF ~s.ok THEN [ok |-> FALSE, ast |-> <<>>]
  ELSE IF s.pos > Len(toks) THEN [ok |-> TRUE, ast |-> <<s.node>>]
  ELSE IF toks[s.pos] # ";" THEN [ok |-> FALSE, ast |-> <<>>]
  ELSE IF s.pos = Len(toks) THEN [ok |-> TRUE, ast |-> <<s.node>>]
  ELSE BatchCons(s.node, ParseBatch(toks, s.pos + 1))

ParseBatch(toks, i) == BatchOf(toks, ParseStatement(toks, i))

\* sqlParser.astify(text): ok = FALSE stands for the thrown parse error
Astify(text) == ParseBatch(Lex(text), 1)

(***************************************************************************)
(* Configuration (src/src/config.ts) and error messages.  A message is the *)
(* sequence of the fragments the source concatenates; Contains(msg, x) is  *)
(* String.prototype.includes / Jest's toContain on it.                     *)
(***************************************************************************)
Unset == "<unset>"

\* parseInt(v || dflt, 10) for a variable that is unset, empty or a decimal
\* numeral
EnvInt(v, dflt) == IF v \in {Unset, ""} THEN dflt ELSE NumVal[v]

\* readOnly resolved from the values commonly read as true
LoadConfig_ReadOnlyTruthy(e) ==
  [readOnly |-> e.READ_ONLY \in {"true", "yes", "1", "on"},
   maxPageSize |-> EnvInt(e.MAX_PAGE_SIZE, 500),
   defaultPageSize |-> EnvInt(e.DEFAULT_PAGE_SIZE, 100),
   autoLimit |-> e.AUTO_LIMIT # "false",
   maxPayloadSize |-> EnvInt(e.MAX_PAYLOAD_SIZE, 5 * 1024 * 1024)]

\* loadConfig: the fields the query tool reads
LoadConfig(e) ==
  [readOnly        |-> e.READ_ONLY # "false",
   maxPageSize     |-> EnvInt(e.MAX_PAGE_SIZE, 500),
   defaultPageSize |-> EnvInt(e.DEFAULT_PAGE_SIZE, 100),
   autoLimit       |-> e.AUTO_LIMIT # "false",
   maxPayloadSize  |-> EnvInt(e.MAX_PAYLOAD_SIZE, 5 * 1024 * 1024)]

\* read-only only for the values that read as "yes"
isReadOnlyMode_Truthy == env.READ_ONLY \in {"true", "yes", "1", "on"}

\* isReadOnlyMode(): process.env.READ_ONLY !== "false"
isReadOnlyMode == env.READ_ONLY # "false"

\* the list with its last entry lost
DANGEROUS_OPERATIONS_Short ==
  {"DROP", "CREATE", "ALTER", "TRUNCATE", "GRANT", "REVOKE", "VACUUM",
   "ANALYZE", "CLUSTER", "REINDEX", "COPY", "BACKUP", "RESTORE", "ATTACH",
   "DETACH"}

DANGEROUS_OPERATIONS ==
  {"DROP", "CREATE", "ALTER", "TRUNCATE", "GRANT", "REVOKE", "VACUUM",
   "ANALYZE", "CLUSTER", "REINDEX", "COPY", "BACKUP", "RESTORE", "ATTACH",
   "DETACH", "PRAGMA"}

ErrDangerous(op) == <<"Dangerous operation '", op, "' is not allowed">>

ErrReadOnly ==
  <<"Only SELECT, WITH, and EXPLAIN queries are allowed in read-only mode">>

ErrUnsupported == <<"MERGE and UPSERT operations are not currently supported">>

ErrSyntax == <<"Invalid SQL syntax - unable to parse query">>

ErrRequired == <<"SQL query is required and must be a string">>

ErrEmpty == <<"SQL query cannot be empty">>

ErrNoWhere(t) == <<t, " operations must include a WHERE clause">>

ErrTrivialWhere(t) ==
  <<t, " operations cannot use trivial WHERE clauses like WHERE 1=1 or WHERE TRUE">>

ErrParamType ==
  <<"Invalid parameter type - only string, number, boolean, and null are allowed">>

ErrParamFinite == <<"Invalid numeric parameter - must be finite number">>

ErrInput(detail) == <<"Input validation failed: ", detail>>

\* the (fragment, text) pairs in which the fragment has the text as a
\* substring
Substrings ==
  {<<"' is not allowed", "not allowed">>,
   <<"Only SELECT, WITH, and EXPLAIN queries are allowed in read-only mode",
     "read-only mode">>,
   <<"MERGE and UPSERT operations are not currently supported",
     "MERGE and UPSERT operations are not currently supported">>,
   <<"Invalid SQL syntax - unable to parse query", "Invalid SQL syntax">>,
   <<" operations must include a WHERE clause", "WHERE clause">>,
   <<" operations cannot use trivial WHERE clauses like WHERE 1=1 or WHERE TRUE",
     "WHERE clause">>,
   <<" operations cannot use trivial WHERE clauses like WHERE 1=1 or WHERE TRUE",
     "trivial WHERE">>,
   <<"SQL query cannot be empty", "cannot be empty">>,
   <<"Input validation failed: ", "Input validation failed">>,
   <<"MB) exceeds maximum allowed size (", "exceeds maximum allowed size">>,
   <<"EXPLAIN is only allowed for SELECT queries and read-only operations",
     "EXPLAIN is only allowed for SELECT queries">>}

Contains(msg, x) == \E i \in DOMAIN msg : <<msg[i], x>> \in Substrings

Valid == [isValid |-> TRUE, error |-> None]

Invalid(msg) == [isValid |-> FALSE, error |-> Some(msg)]

(***************************************************************************)
(* validateSqlSafety                                                       *)
(***************************************************************************)
\* only the numeric patterns WHERE 1=1 and WHERE 1
IsTrivialWhere_NumbersOnly(where) ==
  \/ where.type = "number"
  \/ /\ where.type = "binary_expr"
     /\ where.operator = "="
     /\ where.left.type = "number" /\ where.right.type = "number"
     /\ where.left.value = where.right.value

\* every equality taken for a tautology
IsTrivialWhere_AnyEquality(where) ==
  \/ where.type \in {"bool", "number"}
  \/ where.type = "binary_expr" /\ where.operator = "="

\* lines 207-274: the WHERE patterns that disable the clause
IsTrivialWhere(where) ==
  \/ where.type = "bool" /\ where.value = TRUE
  \/ where.type = "number"
  \/ /\ where.type = "binary_expr"
     /\ where.operator = "="
     /\ LET left  == where.left
            right == where.right
        IN \/ /\ left.type = "number" /\ right.type = "number"
              /\ left.value = right.value
           \/ /\ left.type = "single_quote_string"
              /\ right.type = "single_quote_string"
              /\ left.value = right.value
           \/ /\ left.type = "column_ref" /\ right.type = "column_ref"
              /\ LET leftIsString  == left.column.isString
                     rightIsString == right.column.isString
                 IN \/ /\ ~leftIsString /\ ~rightIsString
                       /\ left.column.expr.type = "double_quote_string"
                       /\ right.column.expr.type = "double_quote_string"
                       /\ left.column.expr.value = right.column.expr.value
                    \/ /\ leftIsString /\ rightIsString
                       /\ left.column.str = right.column.str

\* a WHERE clause is never found missing
MissingWhere_Never(statement) == FALSE

\* line 200: !("where" in statement) || !statement.where
MissingWhere(statement) == ~IsSome(statement.where)

\* lines 177-276: the body of the loop, for one statement; None when the
\* statement passes
CheckStatement(statement) ==
  LET statementType == ToUpperSym(statement.type)
  IN IF statementType \in DANGEROUS_OPERATIONS
       THEN Some(ErrDangerous(statementType))
     ELSE IF isReadOnlyMode
       THEN IF statementType \notin {"SELECT", "WITH", "EXPLAIN"}
              THEN Some(ErrReadOnly)
              ELSE None
     ELSE IF statementType \in {"UPDATE", "DELETE"}
       THEN IF MissingWhere(statement)
              THEN Some(ErrNoWhere(statementType))
            ELSE IF IsSome(statement.where) /\ IsTrivialWhere(statement.where[1])
              THEN Some(ErrTrivialWhere(statementType))
            ELSE None
     ELSE None

\* lines 176-279: the first statement that fails decides
RECURSIVE CheckStatements(_)
CheckStatements(statements) ==
  IF statements = <<>> THEN Valid
  ELSE LET r == CheckStatement(Head(statements))
       IN IF IsSome(r) THEN Invalid(r[1])
          ELSE CheckStatements(Tail(statements))

\* MERGE and UPSERT always answered with the read-write reason
RejectMergeUpsert_OneReason == Invalid(ErrUnsupported)

\* lines 146-159
RejectMergeUpsert ==
  IF isReadOnlyMode THEN Invalid(ErrReadOnly) ELSE Invalid(ErrUnsupported)

\* a parse error taken for "nothing to object to"
OnParseError_Permissive == Valid

\* lines 165-170: the catch of the parse error
OnParseError == Invalid(ErrSyntax)

validateSqlSafety(sqlString) ==
  IF sqlString = <<>> THEN Invalid(ErrRequired)
  ELSE LET trimmedSql == Trim(sqlString)
           upperSql   == ToUpperCase(trimmedSql)
           firstWord  == FirstWord(upperSql)
           ast        == Astify(trimmedSql)
       IN IF trimmedSql = <<>> THEN Invalid(ErrEmpty)
          ELSE IF firstWord \in DANGEROUS_OPERATIONS
            THEN Invalid(ErrDangerous(firstWord))
          ELSE IF firstWord = "EXPLAIN" THEN Valid
          ELSE IF firstWord \in {"MERGE", "UPSERT"} THEN RejectMergeUpsert
          ELSE IF ~ast.ok THEN OnParseError
          ELSE CheckStatements(ast.ast)

(***************************************************************************)
(* isReadOnlyQuery, isSingleRowAggregate, applyPagination                  *)
(***************************************************************************)
\* upper.startsWith(kw): the first symbol begins with kw
StartsWith(upper, kw) == upper # <<>> /\ upper[1] = kw

\* EXPLAIN not taken for a read-only query
isReadOnlyQuery_SelectWith(sqlString) ==
  LET upperSql == ToUpperCase(Trim(sqlString))
  IN \/ StartsWith(upperSql, "SELECT")
     \/ StartsWith(upperSql, "WITH")

isReadOnlyQuery(sqlString) ==
  LET upperSql == ToUpperCase(Trim(sqlString))
  IN \/ StartsWith(upperSql, "SELECT")
     \/ StartsWith(upperSql, "WITH")
     \/ StartsWith(upperSql, "EXPLAIN")

\* the symbols that have "LIMIT", "OFFSET" as a substring
HasLimitText == {"LIMIT", "RATE_LIMIT"}

\* OFFSET never detected
HasOffsetText_None == {}

HasOffsetText == {"OFFSET"}

\* upper.includes(x) for a one-symbol text x, given the symbols containing it
IncludesAny(upper, syms) == \E i \in DOMAIN upper : upper[i] \in syms

\* upper.includes(x) for a text x made of the adjacent symbols xs
IncludesSeq(upper, xs) ==
  \E i \in 0..(Len(upper) - Len(xs)) :
    \A j \in 1..Len(xs) : upper[i + j] = xs[j]

isSingleRowAggregate(upperSql) ==
  LET hasAggregates ==
        \E f \in {"COUNT", "SUM", "AVG", "MAX", "MIN"} :
          IncludesSeq(upperSql, <<f, "(">>)
      hasGroupBy == IncludesSeq(upperSql, <<"GROUP", " ", "BY">>)
  IN hasAggregates /\ ~hasGroupBy

\* pageSize || DEFAULT_PAGE_SIZE, offset || 0
OrElse(opt, dflt) == IF IsSome(opt) /\ opt[1] # 0 THEN opt[1] ELSE dflt

Min(a, b) == IF a <= b THEN a ELSE b

\* the LIMIT is left out whenever AUTO_LIMIT is off, page size or not
AutoLimitSkipped_IgnoresPageSize(pageSize) == ~config.autoLimit

\* !AUTO_LIMIT && !pageSize
AutoLimitSkipped(pageSize) == ~config.autoLimit /\ OrElse(pageSize, 0) = 0

applyPagination(sqlString, pageSize, offset) ==
  LET cleanedSql == StripSemis(Trim(sqlString))
      upperSql   == ToUpperCase(cleanedSql)
      actualPageSize ==
        Min(OrElse(pageSize, config.defaultPageSize), config.maxPageSize)
      actualOffset == OrElse(offset, 0)
      limited == cleanedSql \o <<" ", "LIMIT", " ", ToString(actualPageSize)>>
  IN IF IncludesAny(upperSql, HasLimitText)
        \/ IncludesAny(upperSql, HasOffsetText)
       THEN [sql |-> cleanedSql,
             actualPageSize |-> OrElse(pageSize, config.defaultPageSize),
             actualOffset |-> OrElse(offset, 0)]
     ELSE IF isSingleRowAggregate(upperSql)
       THEN [sql |-> cleanedSql, actualPageSize |-> actualPageSize,
             actualOffset |-> actualOffset]
     ELSE IF AutoLimitSkipped(pageSize)
       THEN [sql |-> cleanedSql, actualPageSize |-> actualPageSize,
             actualOffset |-> actualOffset]
     ELSE [sql |-> IF actualOffset > 0
                     THEN limited \o <<" ", "OFFSET", " ", ToString(actualOffset)>>
                     ELSE limited,
           actualPageSize |-> actualPageSize,
           actualOffset |-> actualOffset]

(***************************************************************************)
(* Request input, validateInput and validateParameters.  A parameter is    *)
(* rendered by the kind of JavaScript value it is.                         *)
(***************************************************************************)
ParamKinds ==
  {"null", "string", "number", "boolean", "nan", "infinity", "object",
   "array", "function"}

TypeOf(param) ==
  IF param \in {"number", "nan", "infinity"} THEN "number"
  ELSE IF param = "null" THEN "object"
  ELSE param

\* validateInput(QueryInputSchema, input): sql a non-empty string,
\* parameters an array of primitives, pageSize an integer in
\* 1..SchemaMaxPageSize, offset an integer >= 0
\* the largest pageSize QueryInputSchema accepts, whatever MAX_PAGE_SIZE is
\* (query-pagination.test.ts: 501 is rejected, 350 accepted under
\* MAX_PAGE_SIZE=300)
SchemaMaxPageSize == 500

validateInput(input) ==
  IF ~IsSome(input.sql) THEN [success |-> FALSE, error |-> "sql"]
  ELSE IF input.sql[1] = <<>>
    THEN [success |-> FALSE, error |-> "SQL query cannot be empty"]
  ELSE IF /\ IsSome(input.parameters)
          /\ \E i \in DOMAIN input.parameters[1] :
               input.parameters[1][i] \in {"object", "array", "function"}
    THEN [success |-> FALSE, error |-> "parameters"]
  ELSE IF /\ IsSome(input.pageSize)
          /\ input.pageSize[1] \notin 1..SchemaMaxPageSize
    THEN [success |-> FALSE, error |-> "pageSize"]
  ELSE IF IsSome(input.offset) /\ input.offset[1] < 0
    THEN [success |-> FALSE, error |-> "offset"]
  ELSE [success |-> TRUE, error |-> ""]

\* lines 352-368: the loop body for one parameter
\* the type test alone, without Number.isFinite
CheckParameter_TypesOnly(param) ==
  IF /\ param # "null"
     /\ TypeOf(param) \notin {"string", "number", "boolean"}
    THEN Some(ErrParamType)
  ELSE None

CheckParameter(param) ==
  IF /\ param # "null"
     /\ TypeOf(param) \notin {"string", "number", "boolean"}
    THEN Some(ErrParamType)
  ELSE IF TypeOf(param) = "number" /\ param # "number"
    THEN Some(ErrParamFinite)
  ELSE None

RECURSIVE validateParameters(_)
validateParameters(parameters) ==
  IF parameters = <<>> THEN None
  ELSE LET r == CheckParameter(Head(parameters))
       IN IF IsSome(r) THEN r ELSE validateParameters(Tail(parameters))

(***************************************************************************)
(* Results of queryTool (QueryOutput): every property is optional.         *)
(***************************************************************************)
\* an error that also reports a count of rows
ErrorResult_WithRowCount(msg) ==
  [error |-> Some(msg), code |-> None, hint |-> None,
   rows |-> None, rowCount |-> Some(0), pagination |-> None]

ErrorResult(msg) ==
  [error |-> Some(msg), code |-> None, hint |-> None,
   rows |-> None, rowCount |-> None, pagination |-> None]

CaughtResult(msg, code, hint) ==
  [error |-> Some(msg), code |-> Some(code), hint |-> hint,
   rows |-> None, rowCount |-> None, pagination |-> None]

\* hasMore also when more rows came back than the page size
RowsResult_HasMoreAtLeast(n, pageSize, offset) ==
  [error |-> None, code |-> None, hint |-> None,
   rows |-> Some(n), rowCount |-> Some(n),
   pagination |-> Some([hasMore |-> n >= pageSize, pageSize |-> pageSize,
                        offset |-> offset])]

RowsResult(n, pageSize, offset) ==
  [error |-> None, code |-> None, hint |-> None,
   rows |-> Some(n), rowCount |-> Some(n),
   pagination |-> Some([hasMore |-> n = pageSize, pageSize |-> pageSize,
                        offset |-> offset])]

AffectedResult(n) ==
  [error |-> None, code |-> None, hint |-> None,
   rows |-> None, rowCount |-> Some(n), pagination |-> None]

\* (bytes / (1024 * 1024)).toFixed(2), as the fragments of the number
ToFixed2MB(bytes) ==
  LET h == (bytes * 200 + 1048576) \div (2 * 1048576)
  IN <<ToString(h \div 100), ".", ToString((h % 100) \div 10),
       ToString(h % 10)>>

ErrPayload(payloadSize) ==
  <<"Query result payload (">> \o ToFixed2MB(payloadSize)
  \o <<"MB) exceeds maximum allowed size (">>
  \o ToFixed2MB(config.maxPayloadSize)
  \o <<"MB). Please reduce pageSize or add more specific WHERE conditions to limit results.">>

\* errorMessage.replace(/\s+/g, " ").trim() on a message given as symbols
RECURSIVE CollapseWs(_)
CollapseWs(m) ==
  IF m = <<>> THEN <<>>
  ELSE IF Head(m) \in WS
    THEN <<" ">> \o CollapseWs(TrimStart(Tail(m)))
  ELSE <<Head(m)>> \o CollapseWs(Tail(m))

\* trimmed only, the runs of whitespace left as they are
Sanitize_TrimOnly(m) == Trim(m)

Sanitize(m) == Trim(CollapseWs(m))

(***************************************************************************)
(* The database behind pool.query: the kinds of statement PostgreSQL runs  *)
(* when it executes the text it is sent.  A text without parameters goes   *)
(* by the simple query protocol, which runs every statement of the text;   *)
(* a text with parameters is a prepared statement and must be one          *)
(* statement.  A text with a syntax error runs nothing.  EXPLAIN plans its *)
(* statement without running it; EXPLAIN ANALYZE runs it.                  *)
(***************************************************************************)
\* the statement st, run or only planned: [ok, pos, runs]
DbRun(st, runs) ==
  [ok |-> st.ok, pos |-> st.pos, runs |-> IF runs THEN {st.node.type} ELSE {}]

\* one statement at toks[i]
DbStatement(toks, i) ==
  IF KwAt(toks, i, "EXPLAIN")
    THEN IF KwAt(toks, i + 1, "ANALYZE")
           THEN DbRun(ParseStatement(toks, i + 2), TRUE)
           ELSE DbRun(ParseStatement(toks, i + 1), FALSE)
    ELSE DbRun(ParseStatement(toks, i), TRUE)

\* [ok, n, runs]: the number of statements and the kinds that run
RECURSIVE DbBatch(_, _)
\* the statements after the statement st, rest the result for them
DbCons(st, rest) ==
  IF rest.ok
    THEN [ok |-> TRUE, n |-> rest.n + 1, runs |-> st.runs \cup rest.runs]
    ELSE [ok |-> FALSE, n |-> 0, runs |-> {}]

\* what follows the statement st
DbBatchOf(toks, st) ==
  IF ~st.ok THEN [ok |-> FALSE, n |-> 0, runs |-> {}]
  ELSE IF st.pos > Len(toks) THEN [ok |-> TRUE, n |-> 1, runs |-> st.runs]
  ELSE IF toks[st.pos] # ";" THEN [ok |-> FALSE, n |-> 0, runs |-> {}]
  ELSE IF st.pos = Len(toks) THEN [ok |-> TRUE, n |-> 1, runs |-> st.runs]
  ELSE DbCons(st, DbBatch(toks, st.pos + 1))

DbBatch(toks, i) == DbBatchOf(toks, DbStatement(toks, i))

\* the database accepts the batch b: it is well formed, and one statement
\* when it comes with parameters
DbAcceptsBatch(b, params) == b.ok /\ (b.n = 1 \/ ~IsSome(params))

DbAccepts(sent) == DbAcceptsBatch(DbBatch(Lex(sent.sql), 1), sent.params)

\* the number of statements of an accepted text
DbStatementCount(sent) == DbBatch(Lex(sent.sql), 1).n

DbExecutes(sent) ==
  IF DbAccepts(sent) THEN DbBatch(Lex(sent.sql), 1).runs ELSE {}

(***************************************************************************)
(* The SQL texts requests are drawn from.                                  *)
(***************************************************************************)
\* the symbols of ws separated by single spaces
RECURSIVE Sp(_)
Sp(ws) ==
  IF Len(ws) <= 1 THEN ws ELSE <<Head(ws), " ">> \o Sp(Tail(ws))

SelectUsers == Sp(<<"SELECT", "*", "FROM", "users">>)

DropUsers == Sp(<<"DROP", "TABLE", "users">>)

SelectTexts ==
  {SelectUsers,
   Sp(<<"select", "*", "from", "users">>),
   Sp(<<"SELECT", "*", "FROM", "users", "WHERE", "id", "=", "$1">>),
   Sp(<<"SELECT", "*", "FROM", "users", "LIMIT", "2">>),
   Sp(<<"SELECT", "rate_limit", "FROM", "users">>),
   <<"SELECT", " ", "COUNT", "(", "*", ")", " ", "FROM", " ", "users">>,
   Sp(<<"WITH", "c", "AS", "(", "SELECT", "*", "FROM", "users", ")",
        "SELECT", "*", "FROM", "c">>)}

InsertTexts ==
  {Sp(<<"INSERT", "INTO", "users", "VALUES", "(", "1", ")">>),
   Sp(<<"insert", "into", "users", "values", "(", "$1", ")">>)}

WriteHeads ==
  {Sp(<<"UPDATE", "users", "SET", "age", "=", "30">>),
   Sp(<<"update", "users", "set", "age", "=", "30">>),
   Sp(<<"DELETE", "FROM", "users">>),
   Sp(<<"delete", "from", "users">>)}

\* the trivial WHERE clauses the source and its tests name, in several
\* spellings
TrivialWheres ==
  {<<" ", "WHERE", " ", "1", "=", "1">>,
   <<" ", "WHERE", " ", "1", " ", "=", " ", "1">>,
   <<" ", "where", " ", "1", "=", "1">>,
   <<" ", " ", "WHERE", " ", "1", "=", "1", " ">>,
   <<" ", "WHERE", " ", "2", "=", "2">>,
   <<" ", "WHERE", " ", "TRUE">>,
   <<" ", "WHERE", " ", "true">>,
   <<"\n", "where", "\n", "true", "\n">>,
   <<" ", "WHERE", " ", "1">>,
   <<" ", "WHERE", " ", "0">>,
   <<" ", "WHERE", " ", "'1'", "=", "'1'">>,
   <<" ", "WHERE", " ", "'a'", " ", "=", " ", "'a'">>,
   <<" ", "WHERE", " ", "\"1\"", "=", "\"1\"">>,
   <<" ", "WHERE", " ", "id", "=", "id">>}

\* WHERE clauses of none of these shapes
OtherWheres ==
  {<<" ", "WHERE", " ", "id", " ", "=", " ", "1">>,
   <<" ", "where", " ", "id", "=", "$1">>,
   <<" ", "WHERE", " ", "1", "=", "2">>,
   <<" ", "WHERE", " ", "'1'", "=", "'2'">>,
   <<" ", "WHERE", " ", "\"1\"", "=", "\"2\"">>,
   <<" ", "WHERE", " ", "id", "=", "age">>,
   <<" ", "WHERE", " ", "id", "=", "\"1\"">>,
   <<" ", "WHERE", " ", "FALSE">>,
   <<" ", "WHERE", " ", "id", ">", "1">>,
   <<" ", "WHERE", " ", "id", ">", "1", " ", "AND", " ", "1", "=", "1">>}

\* tautologies of other shapes, and a WHERE keyword with no predicate
OddWheres ==
  {<<" ", "WHERE", " ", "(", "1", "=", "1", ")">>,
   <<" ", "WHERE", " ", "1", "+", "0", "=", "1">>,
   <<" ", "WHERE">>}

WriteTexts ==
  {h \o w : h \in WriteHeads,
            w \in {<<>>} \cup TrivialWheres \cup OtherWheres \cup OddWheres}

\* the sixteen operations the tests name (query-security.test.ts, 35-39)
DangerousKeywords ==
  {"DROP", "CREATE", "ALTER", "TRUNCATE", "GRANT", "REVOKE", "VACUUM",
   "ANALYZE", "CLUSTER", "REINDEX", "COPY", "BACKUP", "RESTORE", "ATTACH",
   "DETACH", "PRAGMA"}

DangerousTexts ==
  {<<op, " ", "TABLE", " ", "users">> : op \in DangerousKeywords}
  \cup {Sp(<<"drop", "table", "users">>), Sp(<<"dRoP", "table", "users">>),
        Sp(<<"vacuum", "users">>), <<"pragma", "\n", "users">>, <<"DROP">>}

KeywordOnlyTexts ==
  {Sp(<<"MERGE", "INTO", "users">>), Sp(<<"merge", "into", "users">>),
   Sp(<<"UPSERT", "INTO", "users">>), Sp(<<"upsert", "into", "users">>),
   Sp(<<"EXPLAIN", "SELECT", "*", "FROM", "users">>),
   Sp(<<"explain", "select", "*", "from", "users">>),
   Sp(<<"EXPLAIN", "ANALYZE", "SELECT", "*", "FROM", "users">>),
   Sp(<<"EXPLAIN", "ANALYZE", "DELETE", "FROM", "users">>),
   Sp(<<"EXPLAIN", "foo">>)}

UnparseableTexts ==
  {<<"foo">>, Sp(<<"foo", "foo", "foo">>), Sp(<<"SELECT", "FROM">>),
   Sp(<<"DELETE", "users">>), <<"DROP", ";">>, <<" ", "\n">>}

BaseTexts ==
  SelectTexts \cup InsertTexts \cup WriteTexts \cup DangerousTexts
  \cup KeywordOnlyTexts \cup UnparseableTexts

\* what may precede a statement: whitespace, a comment
Prefixes == {<<" ">>, <<BlockComment, " ">>}

\* the statements that are continued into a batch
BatchHeads ==
  {SelectUsers,
   Sp(<<"INSERT", "INTO", "users", "VALUES", "(", "1", ")">>),
   Sp(<<"DELETE", "FROM", "users", "WHERE", "id", "=", "1">>),
   Sp(<<"UPDATE", "users", "SET", "age", "=", "30">>),
   Sp(<<"DELETE", "FROM", "users", "WHERE", "1", "=", "1">>),
   Sp(<<"EXPLAIN", "SELECT", "*", "FROM", "users">>),
   Sp(<<"EXPLAIN", "ANALYZE", "DELETE", "FROM", "users">>),
   Sp(<<"MERGE", "INTO", "users">>),
   Sp(<<"vacuum", "users">>),
   <<"foo">>}

\* the statements a batch is continued with
BatchStatements ==
  {DropUsers, SelectUsers,
   Sp(<<"DELETE", "FROM", "users", "WHERE", "id", "=", "1">>),
   Sp(<<"DELETE", "FROM", "users">>)}

\* at most MaxAppended further statements follow the first
MaxAppended == 1

RECURSIVE BatchTails(_)
BatchTails(n) ==
  IF n = 0 THEN {<<>>}
  ELSE LET shorter == BatchTails(n - 1)
       IN shorter \cup {t \o <<";", " ">> \o st :
                          t \in shorter, st \in BatchStatements}

\* how a text may end: a terminator, a line comment
Endings == {<<>>, <<";">>, <<" ", LineComment>>, <<";", " ", LineComment>>}

BatchTexts ==
  {h \o t \o e : h \in BatchHeads, t \in BatchTails(MaxAppended), e \in Endings}

SqlTexts ==
  BaseTexts \cup {p \o t : p \in Prefixes, t \in BaseTexts} \cup BatchTexts

(***************************************************************************)
(* State.                                                                  *)
(*   env    - process.env: the variables read (Unset when not set)         *)
(*   config - the singleton of config.ts, loaded once at import            *)
(*   calls  - the invocations of queryTool, one per slot: where the call   *)
(*            stands, its input, its local variables, what it passed to    *)
(*            pool.query and how many times it called it, the kinds of     *)
(*            statement the database executed                              *)
(*            for it, and what it returned                                 *)
(***************************************************************************)
Slots == {1, 2}

Idle ==
  [pc |-> "idle", input |-> None, inputValidation |-> None,
   sqlValidation |-> None, sent |-> None, queries |-> 0, path |-> "none",
   page |-> None, payloadSize |-> None, caught |-> None, executed |-> {},
   result |-> None]

\* a call that returned before reaching pool.query
Returned(input, inputValidation, sqlValidation, result) ==
  [pc |-> "done", input |-> Some(input),
   inputValidation |-> Some(inputValidation), sqlValidation |-> sqlValidation,
   sent |-> None, queries |-> 0, path |-> "none", page |-> None,
   payloadSize |-> None, caught |-> None, executed |-> {}, result |-> Some(result)]

\* a call suspended in "await pool.query(text, params)"
Awaiting(input, inputValidation, sqlValidation, path, text, params, page) ==
  [pc |-> "awaiting", input |-> Some(input),
   inputValidation |-> Some(inputValidation),
   sqlValidation |-> Some(sqlValidation),
   sent |-> Some([sql |-> text,
                  params |-> IF Len(params) > 0 THEN Some(params) ELSE None]),
   queries |-> 1, path |-> path, page |-> page, payloadSize |-> None,
   caught |-> None,
   executed |-> {}, result |-> None]

\* the verdict of the validator ignored
SafetyRejects_Never(sqlValidation) == FALSE

\* line 381: if (!sqlValidation.isValid) return ...
SafetyRejects(sqlValidation) == ~sqlValidation.isValid

\* queryTool from its entry to its first await or early return
queryToolStart(input) ==
  LET inputValidation == validateInput(input)
      sqlValidation   == validateSqlSafety(input.sql[1])
      trimmedSql      == Trim(input.sql[1])
      params == IF IsSome(input.parameters) THEN input.parameters[1] ELSE <<>>
      paramError == IF Len(params) > 0 THEN validateParameters(params) ELSE None
      page == applyPagination(trimmedSql, input.pageSize, input.offset)
  IN IF ~inputValidation.success
       THEN Returned(input, inputValidation.success, None,
                     ErrorResult(ErrInput(inputValidation.error)))
     ELSE IF SafetyRejects(sqlValidation)
       THEN Returned(input, TRUE, Some(sqlValidation),
                     ErrorResult(sqlValidation.error[1]))
     ELSE IF IsSome(paramError)
       THEN Returned(input, TRUE, Some(sqlValidation),
                     ErrorResult(paramError[1]))
     ELSE IF isReadOnlyQuery(trimmedSql)
       THEN Awaiting(input, TRUE, sqlValidation, "read", page.sql, params,
                     Some([actualPageSize |-> page.actualPageSize,
                           actualOffset |-> page.actualOffset]))
     ELSE Awaiting(input, TRUE, sqlValidation, "write",
                   StripSemis(trimmedSql), params, None)

\* queryTool's catch block, for the value thrown
queryToolCaught(thrown) ==
  CaughtResult(
    Sanitize(IF thrown.isError THEN thrown.message
             ELSE <<"Unknown error occurred">>),
    IF IsSome(thrown.code) THEN thrown.code[1] ELSE "UNKNOWN",
    thrown.hint)

\* what Buffer.byteLength throws for JSON.stringify(undefined)
ByteLengthTypeError ==
  [isError |-> TRUE,
   message |-> <<"The \"string\" argument must be of type string or an instance of Buffer or ArrayBuffer. Received undefined">>,
   code |-> Some("ERR_INVALID_ARG_TYPE"), hint |-> None]

\* queryTool, after pool.query resolved with res.  For a text of several
\* statements res is an array of results, which has neither rows nor
\* rowCount.
\* the limit is reached, not exceeded
ExceedsPayload_AtLeast(payloadSize) == payloadSize >= config.maxPayloadSize

\* payloadSize > MAX_PAYLOAD_SIZE
ExceedsPayload(payloadSize) == payloadSize > config.maxPayloadSize

\* Buffer.byteLength(JSON.stringify(result.rows), 'utf8'), measured on the
\* read path when result.rows is there to serialise
payloadSizeOf(c, res) ==
  IF c.path = "read" /\ ~res.isArray THEN Some(res.bytes) ELSE None

\* what the catch block receives after pool.query resolved: the TypeError
\* of Buffer.byteLength when result.rows is undefined
caughtOf(c, res) ==
  IF c.path = "read" /\ res.isArray THEN Some(ByteLengthTypeError) ELSE None

queryToolResolved(c, res) ==
  IF c.path = "read"
    THEN IF res.isArray THEN queryToolCaught(ByteLengthTypeError)
         ELSE IF ExceedsPayload(res.bytes)
           THEN ErrorResult(ErrPayload(res.bytes))
         ELSE RowsResult(res.rows, c.page[1].actualPageSize,
                         c.page[1].actualOffset)
    ELSE AffectedResult(IF ~res.isArray /\ IsSome(res.rowCount)
                          THEN res.rowCount[1] ELSE 0)

(***************************************************************************)
(* Inputs of the actions.                                                  *)
(***************************************************************************)
\* an environment in which only READ_ONLY may be set
DefaultEnv(readOnly) ==
  [READ_ONLY |-> readOnly, MAX_PAGE_SIZE |-> Unset,
   DEFAULT_PAGE_SIZE |-> Unset, AUTO_LIMIT |-> Unset,
   MAX_PAYLOAD_SIZE |-> Unset]

\* the values of READ_ONLY, and the other variables set in the default mode
EnvValues ==
  {DefaultEnv(ro) : ro \in {Unset, "", "true", "false", "FALSE", "yes", "1",
                            "on", "undefined"}}
  \cup {[DefaultEnv(Unset) EXCEPT !.MAX_PAGE_SIZE = "50"],
        [DefaultEnv(Unset) EXCEPT !.DEFAULT_PAGE_SIZE = "75"],
        [DefaultEnv(Unset) EXCEPT !.AUTO_LIMIT = "false",
                                  !.MAX_PAYLOAD_SIZE = "60"]}

ParameterLists ==
  {None, Some(<<>>), Some(<<"string", "number">>),
   Some(<<"null", "boolean", "string">>), Some(<<"object">>),
   Some(<<"string", "array">>), Some(<<"function">>),
   Some(<<"number", "nan">>), Some(<<"infinity">>),
   Some([i \in 1..100 |-> "string"])}

\* the texts sent with every parameter list
ParamTexts ==
  {SelectUsers,
   Sp(<<"SELECT", "*", "FROM", "users", "WHERE", "id", "=", "$1">>),
   Sp(<<"insert", "into", "users", "values", "(", "$1", ")">>),
   Sp(<<"DELETE", "FROM", "users", "WHERE", "id", "=", "$1">>),
   Sp(<<"DELETE", "FROM", "users">>), DropUsers, <<"foo">>}

PageSizes == {None, Some(0), Some(2), Some(60), Some(501)}

Offsets == {None, Some(0), Some(3), Some(-1)}

\* the texts sent with every page size and offset
PageTexts ==
  {SelectUsers, SelectUsers \o <<";">>, SelectUsers \o <<" ", LineComment>>,
   <<"\n">> \o SelectUsers \o <<";", ";", " ">>,
   Sp(<<"SELECT", "*", "FROM", "users", "WHERE", "id", ">", "1">>),
   Sp(<<"SELECT", "*", "FROM", "users", "LIMIT", "2">>),
   Sp(<<"select", "*", "from", "users", "limit", "2">>) \o <<";">>,
   Sp(<<"SELECT", "*", "FROM", "users", "LIMIT", "2", "OFFSET", "1">>),
   Sp(<<"SELECT", "*", "FROM", "users", "offset", "1">>),
   Sp(<<"SELECT", "rate_limit", "FROM", "users">>),
   <<"SELECT", " ", "COUNT", "(", "*", ")", " ", "FROM", " ", "users">>,
   <<"select", " ", "count", "(", "*", ")", " ", "from", " ", "users", ";">>,
   <<"SELECT", " ", "COUNT", " ", "(", "*", ")", " ", "FROM", " ", "users">>,
   <<"SELECT", " ", "COUNT", "(", "*", ")", " ", "FROM", " ", "users", " ",
     "GROUP", " ", "BY", " ", "id">>,
   <<"SELECT", " ", "COUNT", "(", "*", ")", " ", "FROM", " ", "users", " ",
     "GROUP", "\n", "BY", " ", "id">>,
   Sp(<<"WITH", "c", "AS", "(", "SELECT", "*", "FROM", "users", ")",
        "SELECT", "*", "FROM", "c">>),
   Sp(<<"EXPLAIN", "SELECT", "*", "FROM", "users">>),
   Sp(<<"INSERT", "INTO", "users", "VALUES", "(", "1", ")">>),
   Sp(<<"DELETE", "FROM", "users", "WHERE", "id", "=", "1">>)}

Inputs ==
  {[sql |-> Some(t), parameters |-> ps, pageSize |-> None, offset |-> None] :
     t \in SqlTexts, ps \in {None, Some(<<"string", "number">>)}}
  \cup {[sql |-> Some(t), parameters |-> ps, pageSize |-> None,
         offset |-> None] : t \in ParamTexts, ps \in ParameterLists}
  \cup {[sql |-> Some(t), parameters |-> None, pageSize |-> n, offset |-> o] :
          t \in PageTexts, n \in PageSizes, o \in Offsets}
  \cup {[sql |-> q, parameters |-> None, pageSize |-> None, offset |-> None] :
          q \in {None, Some(<<>>)}}

\* what pool.query resolves with: the number of rows, the byte length of
\* their JSON text, and rowCount (null for some commands)
GatewayResults ==
  {[isArray |-> FALSE, rows |-> 0, bytes |-> 2, rowCount |-> Some(0)],
   [isArray |-> FALSE, rows |-> 2, bytes |-> 60, rowCount |-> Some(2)],
   [isArray |-> FALSE, rows |-> 2, bytes |-> 5 * 1024 * 1024 + 1,
    rowCount |-> Some(2)],
   [isArray |-> FALSE, rows |-> 3, bytes |-> 5 * 1024 * 1024,
    rowCount |-> Some(3)],
   [isArray |-> FALSE, rows |-> 0, bytes |-> 2, rowCount |-> None],
   [isArray |-> TRUE, rows |-> 0, bytes |-> 0, rowCount |-> None]}

\* what pool.query rejects with
GatewayErrors ==
  {[isError |-> TRUE,
    message |-> <<"syntax", " ", "\n", " ", "error", "\n">>,
    code |-> Some("42601"), hint |-> None],
   [isError |-> TRUE,
    message |-> <<" ", "duplicate", " ", " ", "key", "\n", "\n", "value", " ">>,
    code |-> Some("23505"), hint |-> Some("hint")],
   [isError |-> TRUE,
    message |-> <<"timeout", " ", "exceeded">>,
    code |-> None, hint |-> None],
   [isError |-> FALSE, message |-> <<>>, code |-> None, hint |-> None]}

(***************************************************************************)
(* Actions.                                                                *)
(***************************************************************************)
(***************************************************************************)
(* explainQueryTool (performance.ts): one call at a time, from its input   *)
(* to the plan or the error it returns.                                    *)
(***************************************************************************)
ErrExplainOnly ==
  <<"EXPLAIN is only allowed for SELECT queries and read-only operations">>

\* the symbols that have INSERT, UPDATE, DELETE, DROP, CREATE, ALTER or
\* TRUNCATE as a substring
ExplainBlockedText ==
  {"INSERT", "UPDATE", "DELETE", "DROP", "CREATE", "ALTER", "TRUNCATE",
   "CREATED_AT"}

\* the test made on the first word alone
ExplainBlocked_LeadingOnly(trimmedSql) ==
  trimmedSql # <<>> /\ trimmedSql[1] \in ExplainBlockedText

\* trimmedSql.includes("INSERT") || ... || trimmedSql.includes("TRUNCATE")
ExplainBlocked(trimmedSql) == IncludesAny(trimmedSql, ExplainBlockedText)

\* `FORMAT ${upperFormat}` for the formats in validFormats
FormatOption ==
     "TEXT" :> "FORMAT TEXT" @@ "JSON" :> "FORMAT JSON"
  @@ "XML" :> "FORMAT XML" @@ "YAML" :> "FORMAT YAML"

\* options.join(", ")
RECURSIVE JoinOptions(_)
JoinOptions(options) ==
  IF Len(options) <= 1 THEN options
  ELSE <<Head(options), ", ">> \o JoinOptions(Tail(options))

\* the options pushed for the input
ExplainOptions(input) ==
  (IF input.analyze = Some(TRUE) THEN <<"ANALYZE true">> ELSE <<>>)
  \o (IF input.buffers = Some(TRUE) THEN <<"BUFFERS true">> ELSE <<>>)
  \o (IF input.costs # Some(FALSE) THEN <<"COSTS true">> ELSE <<>>)
  \o (IF /\ IsSome(input.format)
         /\ ToUpperSym(input.format[1]) \in DOMAIN FormatOption
        THEN <<FormatOption[ToUpperSym(input.format[1])]>> ELSE <<>>)

\* `EXPLAIN ${optionsStr} ${validatedInput.sql}`
ExplainSql(input) ==
  <<"EXPLAIN", " ">>
  \o (IF ExplainOptions(input) # <<>>
        THEN <<"(">> \o JoinOptions(ExplainOptions(input)) \o <<")">>
        ELSE <<>>)
  \o <<" ">> \o input.sql[1]

\* validateInput(ExplainQueryInputSchema, input): sql a non-empty string
validateExplainInput(input) ==
  IF ~IsSome(input.sql) THEN [success |-> FALSE, error |-> "sql"]
  ELSE IF input.sql[1] = <<>>
    THEN [success |-> FALSE, error |-> "SQL query cannot be empty"]
  ELSE [success |-> TRUE, error |-> ""]

ExplainIdle ==
  [pc |-> "idle", input |-> None, sent |-> None, caught |-> None,
   result |-> None]

ExplainReturned(input, result) ==
  [pc |-> "done", input |-> Some(input), sent |-> None, caught |-> None,
   result |-> Some(result)]

ExplainAwaiting(input, text) ==
  [pc |-> "awaiting", input |-> Some(input), sent |-> Some(text),
   caught |-> None, result |-> None]

\* explainQueryTool from its entry to its await or early return
explainQueryToolStart(input) ==
  IF ~validateExplainInput(input).success
    THEN ExplainReturned(input,
           [plan |-> None,
            error |-> Some(ErrInput(validateExplainInput(input).error))])
  ELSE IF ExplainBlocked(ToUpperCase(Trim(input.sql[1])))
    THEN ExplainReturned(input, [plan |-> None, error |-> Some(ErrExplainOnly)])
  ELSE ExplainAwaiting(input, ExplainSql(input))

\* the catch block of explainQueryTool: the message as it is
explainQueryToolCaught(thrown) ==
  [plan |-> None,
   error |-> Some(IF thrown.isError THEN thrown.message
                  ELSE <<"Unknown error occurred">>)]

\* { plan: result.rows }; for a batch result is an array and has no rows
explainQueryToolResolved(res) ==
  [plan |-> IF res.isArray THEN None ELSE Some(res.rows), error |-> None]

\* the requests made of explainQueryTool
ExplainTexts ==
  {SelectUsers,
   Sp(<<"select", "*", "from", "users">>),
   <<" ">> \o Sp(<<"SELECT", "*", "FROM", "users", "WHERE", "id", "=", "1">>),
   Sp(<<"WITH", "c", "AS", "(", "SELECT", "*", "FROM", "users", ")",
        "SELECT", "*", "FROM", "c">>),
   Sp(<<"SELECT", "created_at", "FROM", "users">>),
   Sp(<<"INSERT", "INTO", "users", "VALUES", "(", "1", ")">>),
   Sp(<<"UPDATE", "users", "SET", "age", "=", "1">>),
   Sp(<<"delete", "from", "users">>),
   DropUsers,
   Sp(<<"CREATE", "TABLE", "users">>),
   Sp(<<"ALTER", "TABLE", "users">>),
   Sp(<<"TRUNCATE", "users">>),
   SelectUsers \o <<";", " ">> \o Sp(<<"DELETE", "FROM", "users">>),
   SelectUsers \o <<";", " ">> \o SelectUsers,
   Sp(<<"VACUUM", "users">>),
   <<"foo">>}

ExplainInputs ==
  {[sql |-> Some(t), analyze |-> a, buffers |-> None, costs |-> None,
    format |-> f] :
     t \in ExplainTexts, a \in {None, Some(TRUE)},
     f \in {None, Some("json"), Some("csv")}}
  \cup {[sql |-> Some(SelectUsers), analyze |-> Some(FALSE),
         buffers |-> Some(TRUE), costs |-> Some(FALSE), format |-> None],
        [sql |-> Some(SelectUsers), analyze |-> None, buffers |-> None,
         costs |-> Some(FALSE), format |-> None],
        [sql |-> None, analyze |-> None, buffers |-> None, costs |-> None,
         format |-> None],
        [sql |-> Some(<<>>), analyze |-> None, buffers |-> None,
         costs |-> None, format |-> None]}

(***************************************************************************)
(* The HTTP server (http-server.ts): the table of transports by session    *)
(* ID and the three handlers of /mcp.  `transports` is a plain object, so  *)
(* transports[id] also finds what Object.prototype gives every object.     *)
(***************************************************************************)
MaxSessions == 2

\* the IDs randomUUID gives
SessionIds == {ToString(i) : i \in 1..MaxSessions}

\* property names every object inherits; each has a truthy value
ObjectPrototypeKeys ==
  {"constructor", "__proto__", "toString", "valueOf", "hasOwnProperty",
   "isPrototypeOf", "propertyIsEnumerable", "toLocaleString"}

\* the mcp-session-id header of a request
SessionHeaders ==
  {None, Some("constructor")} \cup {Some(id) : id \in SessionIds}

\* only the table's own entries looked at
Found_OwnOnly(table, sessionId) == sessionId \in table

\* transports[sessionId] is truthy
Found(table, sessionId) == sessionId \in table \cup ObjectPrototypeKeys

\* !sessionId || !transports[sessionId]
InvalidSession(table, header) ==
  ~IsSome(header) \/ ~Found(table, header[1])

\* a request as it was answered: `active` says whether its header named a
\* session of the table when it arrived, `handled` the transport it was
\* handed to
HttpResponse(table, method, header, isInit, status, handled) ==
  [method |-> method, header |-> header, isInit |-> isInit,
   active |-> IsSome(header) /\ header[1] \in table,
   status |-> status, handled |-> handled]

\* what becomes of `await transport.handleRequest(...)` when transport is
\* not a transport and the handler has no try/catch: the rejection of the
\* handler is answered by the framework, or it ends the process
\* (unhandledRejection, process.exit(1))
UncaughtOutcomes == {"500", "exit"}

HttpStart ==
  [up |-> TRUE, transports |-> {}, connecting |-> {}, issued |-> {},
   created |-> {}, closed |-> {}, last |-> None]

(***************************************************************************)
(* DatabaseManager: the Kysely handle `db` and the pg pool `pool` it       *)
(* holds.  Pools are numbered in the order connect() makes them; a handle  *)
(* is named by the pool it was built on.  Kysely creates its driver at the *)
(* first query, and db.destroy() ends the pool only if the driver exists.  *)
(***************************************************************************)
MaxPools == 2

ManagerStart ==
  [db |-> None, pool |-> None, initialised |-> FALSE, ended |-> {},
   made |-> 0, pc |-> "idle", closing |-> None, got |-> None,
   gotEnded |-> FALSE, last |-> "none"]

\* connect(): nothing if a handle is held, else a new pool and a handle on it
connect(m) ==
  IF IsSome(m.db) THEN m
  ELSE [m EXCEPT !.pool = Some(m.made + 1), !.db = Some(m.made + 1),
                 !.initialised = FALSE, !.made = m.made + 1]

\* this.pool && !this.pool.ended
PoolToEnd(m) == IsSome(m.pool) /\ m.pool[1] \notin m.ended

\* close() from its second `if` on: it waits for pool.end() or it is done
closeSecondHalf(m) ==
  IF PoolToEnd(m)
    THEN [m EXCEPT !.pc = "ending", !.closing = m.pool]
    ELSE [m EXCEPT !.pc = "idle", !.closing = None, !.last = "close"]

Init ==
  /\ env \in EnvValues
  /\ config = LoadConfig(env)
  /\ calls = [s \in Slots |-> Idle]
  /\ explain = ExplainIdle
  /\ http = HttpStart
  /\ manager = ManagerStart

\* a call that leaves its page size and offset in a place every call uses:
\* the calls that wait for the gateway get those of the newest call
QueryTool_SharedPage(s, input) ==
  /\ calls[s].pc = "idle"
  /\ calls' = [t \in Slots |->
                 IF t = s THEN queryToolStart(input)
                 ELSE IF calls[t].pc = "awaiting"
                   THEN [calls[t] EXCEPT !.page = queryToolStart(input).page]
                 ELSE calls[t]]
  /\ UNCHANGED <<env, config, explain, http, manager>>

\* a caller invokes queryTool(input); the call runs to its first await
QueryTool(s, input) ==
  /\ calls[s].pc = "idle"
  /\ calls' = [calls EXCEPT ![s] = queryToolStart(input)]
  /\ UNCHANGED <<env, config, explain, http, manager>>

\* the database executes the text and pool.query resolves
GatewayResolve(s, res) ==
  /\ calls[s].pc = "awaiting"
  /\ DbAccepts(calls[s].sent[1])
  /\ res.isArray = (DbStatementCount(calls[s].sent[1]) > 1)
  /\ calls' = [calls EXCEPT ![s].pc = "done",
                            ![s].executed = DbExecutes(calls[s].sent[1]),
                            ![s].payloadSize = payloadSizeOf(calls[s], res),
                            ![s].caught = caughtOf(calls[s], res),
                            ![s].result = Some(queryToolResolved(calls[s], res))]
  /\ UNCHANGED <<env, config, explain, http, manager>>

\* a failed query is sent again instead of being reported
GatewayReject_Retries(s, thrown) ==
  /\ calls[s].pc = "awaiting"
  /\ calls[s].queries = 1
  /\ calls' = [calls EXCEPT ![s].queries = 2]
  /\ UNCHANGED <<env, config, explain, http, manager>>

\* the database fails the text, or the connection fails: pool.query rejects
GatewayReject(s, thrown) ==
  /\ calls[s].pc = "awaiting"
  /\ calls' = [calls EXCEPT ![s].pc = "done",
                            ![s].caught = Some(thrown),
                            ![s].result = Some(queryToolCaught(thrown))]
  /\ UNCHANGED <<env, config, explain, http, manager>>

\* the caller has the result; the slot is free for the next call
Return(s) ==
  /\ calls[s].pc = "done"
  /\ calls' = [calls EXCEPT ![s] = Idle]
  /\ UNCHANGED <<env, config, explain, http, manager>>

\* requests one after another
Next ==
  \/ \E input \in Inputs : QueryTool(1, input)
  \/ \E res \in GatewayResults : GatewayResolve(1, res)
  \/ \E thrown \in GatewayErrors : GatewayReject(1, thrown)
  \/ Return(1)

Spec == Init /\ [][Next]_vars

\* the requests of the calls that run side by side
ConcurrentInputs ==
  {[sql |-> Some(t), parameters |-> None, pageSize |-> n, offset |-> o] :
     t \in {SelectUsers, Sp(<<"SELECT", "*", "FROM", "users", "LIMIT", "2">>)},
     n \in {None, Some(2)}, o \in {None, Some(3)}}
  \cup {[sql |-> Some(t), parameters |-> None, pageSize |-> None,
         offset |-> None] :
          t \in {Sp(<<"DELETE", "FROM", "users", "WHERE", "id", "=", "1">>),
                 Sp(<<"DELETE", "FROM", "users">>), DropUsers}}

\* several calls of queryTool in flight: each one runs to its await in one
\* piece, and the event loop resumes them in any order
ConcurrentNext ==
  \/ \E s \in Slots, input \in ConcurrentInputs : QueryTool(s, input)
  \/ \E s \in Slots, res \in GatewayResults : GatewayResolve(s, res)
  \/ \E s \in Slots, thrown \in GatewayErrors : GatewayReject(s, thrown)
  \/ \E s \in Slots : Return(s)

ConcurrentSpec == Init /\ [][ConcurrentNext]_vars

\* a call of explainQueryTool up to its await or its early return
ExplainQueryTool(input) ==
  /\ explain.pc = "idle"
  /\ explain' = explainQueryToolStart(input)
  /\ UNCHANGED <<env, config, calls, http, manager>>

\* the database plans the statement sent and pool.query resolves
ExplainResolve(res) ==
  /\ explain.pc = "awaiting"
  /\ DbAccepts([sql |-> explain.input[1].sql[1], params |-> None])
  /\ res.isArray
       = (DbStatementCount([sql |-> explain.input[1].sql[1],
                            params |-> None]) > 1)
  /\ explain' = [explain EXCEPT !.pc = "done",
                                !.result = Some(explainQueryToolResolved(res))]
  /\ UNCHANGED <<env, config, calls, http, manager>>

\* pool.query rejects
ExplainReject(thrown) ==
  /\ explain.pc = "awaiting"
  /\ explain' = [explain EXCEPT !.pc = "done",
                                !.caught = Some(thrown),
                                !.result = Some(explainQueryToolCaught(thrown))]
  /\ UNCHANGED <<env, config, calls, http, manager>>

\* the caller has the plan or the error
ExplainReturn ==
  /\ explain.pc = "done"
  /\ explain' = ExplainIdle
  /\ UNCHANGED <<env, config, calls, http, manager>>

\* requests of explainQueryTool one after another
ExplainNext ==
  \/ \E input \in ExplainInputs : ExplainQueryTool(input)
  \/ \E res \in GatewayResults : ExplainResolve(res)
  \/ \E thrown \in GatewayErrors : ExplainReject(thrown)
  \/ ExplainReturn

ExplainSpec == Init /\ [][ExplainNext]_vars

\* POST /mcp with an initialize request, up to `await server.connect`: a new
\* session ID, whatever the header says
PostInitialize(header) ==
  /\ http.up
  /\ \E id \in SessionIds \ http.issued :
       http' = [http EXCEPT !.issued = @ \cup {id},
                            !.connecting = @ \cup {id}]
  /\ UNCHANGED <<env, config, calls, explain, manager>>

\* server.connect resolved: the transport is stored, its onclose is set and
\* the request is handed to it
ConnectResolved(id) ==
  /\ http.up
  /\ id \in http.connecting
  /\ http' = [http EXCEPT
                !.connecting = @ \ {id},
                !.transports = @ \cup {id},
                !.created = @ \cup {id},
                !.last = Some(HttpResponse(http.transports, "POST", None, TRUE, "transport",
                                           Some(id)))]
  /\ UNCHANGED <<env, config, calls, explain, manager>>

\* server.connect rejected: the catch block answers 500, nothing is stored
ConnectRejected(id) ==
  /\ http.up
  /\ id \in http.connecting
  /\ http' = [http EXCEPT
                !.connecting = @ \ {id},
                !.last = Some(HttpResponse(http.transports, "POST", None, TRUE, "500", None))]
  /\ UNCHANGED <<env, config, calls, explain, manager>>

\* POST /mcp with any other body
PostRequest(header) ==
  /\ http.up
  /\ http' = [http EXCEPT !.last =
       Some(IF InvalidSession(http.transports, header)
              THEN HttpResponse(http.transports, "POST", header, FALSE, "400", None)
            ELSE IF header[1] \in http.transports
              THEN HttpResponse(http.transports, "POST", header, FALSE, "transport", header)
            ELSE HttpResponse(http.transports, "POST", header, FALSE, "500", None))]
  /\ UNCHANGED <<env, config, calls, explain, manager>>

\* GET /mcp: no try/catch around the call of the transport
GetRequest(header, uncaught) ==
  /\ http.up
  /\ http' =
       IF InvalidSession(http.transports, header)
         THEN [http EXCEPT !.last =
                 Some(HttpResponse(http.transports, "GET", header, FALSE, "400", None))]
       ELSE IF header[1] \in http.transports
         THEN [http EXCEPT !.last =
                 Some(HttpResponse(http.transports, "GET", header, FALSE, "transport", header))]
       ELSE [http EXCEPT
               !.up = uncaught # "exit",
               !.last = Some(HttpResponse(http.transports, "GET", header, FALSE, uncaught, None))]
  /\ UNCHANGED <<env, config, calls, explain, manager>>

\* DELETE /mcp: the transport ends the session, closes and its onclose
\* removes the entry
DeleteRequest(header) ==
  /\ http.up
  /\ http' =
       IF InvalidSession(http.transports, header)
         THEN [http EXCEPT !.last =
                 Some(HttpResponse(http.transports, "DELETE", header, FALSE, "400", None))]
       ELSE IF header[1] \in http.transports
         THEN [http EXCEPT
                 !.transports = @ \ {header[1]},
                 !.closed = @ \cup {header[1]},
                 !.last = Some(HttpResponse(http.transports, "DELETE", header, FALSE,
                                            "transport", header))]
       ELSE [http EXCEPT !.last =
               Some(HttpResponse(http.transports, "DELETE", header, FALSE, "500", None))]
  /\ UNCHANGED <<env, config, calls, explain, manager>>

\* the transport of a session closes by itself; onclose leaves the entry in
\* the table
TransportClosed_KeepsEntry(id) ==
  /\ http.up
  /\ id \in http.transports
  /\ http' = [http EXCEPT !.closed = @ \cup {id}]
  /\ UNCHANGED <<env, config, calls, explain, manager>>

\* the transport of a session closes by itself; onclose removes the entry
TransportClosed(id) ==
  /\ http.up
  /\ id \in http.transports
  /\ http' = [http EXCEPT !.transports = @ \ {id},
                          !.closed = @ \cup {id}]
  /\ UNCHANGED <<env, config, calls, explain, manager>>

\* SIGINT: every transport is closed and removed, then the process exits
Sigint ==
  /\ http.up
  /\ http' = [http EXCEPT !.up = FALSE,
                          !.closed = @ \cup http.transports,
                          !.transports = {}]
  /\ UNCHANGED <<env, config, calls, explain, manager>>

\* the server alone, request after request
HttpNext ==
  \/ \E header \in SessionHeaders : PostInitialize(header)
  \/ \E id \in SessionIds : ConnectResolved(id)
  \/ \E id \in SessionIds : ConnectRejected(id)
  \/ \E header \in SessionHeaders : PostRequest(header)
  \/ \E header \in SessionHeaders, uncaught \in UncaughtOutcomes :
       GetRequest(header, uncaught)
  \/ \E header \in SessionHeaders : DeleteRequest(header)
  \/ \E id \in SessionIds : TransportClosed(id)
  \/ Sigint

HttpSpec == Init /\ [][HttpNext]_vars

\* getDb(): getDatabase() connects when no handle is held
GetDatabase ==
  /\ IsSome(manager.db) \/ manager.made < MaxPools
  /\ manager' = [connect(manager) EXCEPT !.last = "getDb"]
  /\ UNCHANGED <<env, config, calls, explain, http>>

\* what getPool() returns from the manager m: this.pool, and whether that
\* pool had ended by then
returned(m) ==
  [m EXCEPT !.got = m.pool,
            !.gotEnded = IsSome(m.pool) /\ m.pool[1] \in m.ended,
            !.last = "getPool"]

\* getPool() connects when no pool is held and returns this.pool
GetPool ==
  /\ IsSome(manager.pool) \/ IsSome(manager.db) \/ manager.made < MaxPools
  /\ manager' = IF IsSome(manager.pool) THEN returned(manager)
                ELSE returned(connect(manager))
  /\ UNCHANGED <<env, config, calls, explain, http>>

\* a query through the Kysely handle (healthCheck, the tools that call
\* getDb): its driver is created; no query on a handle being destroyed
UseDb ==
  /\ IsSome(manager.db)
  /\ manager.pc # "destroying"
  /\ manager' = [manager EXCEPT !.initialised = TRUE, !.last = "query"]
  /\ UNCHANGED <<env, config, calls, explain, http>>

\* close() up to its first await, or to its end when it has nothing to
\* wait for
CloseStart ==
  /\ manager.pc = "idle"
  /\ manager' =
       IF IsSome(manager.db) THEN [manager EXCEPT !.pc = "destroying"]
       ELSE closeSecondHalf(manager)
  /\ UNCHANGED <<env, config, calls, explain, http>>

\* db.destroy() resolved: the pool of the handle is ended if its driver
\* existed; this.db = null; then the second `if`
CloseDestroyed ==
  /\ manager.pc = "destroying"
  /\ manager' =
       closeSecondHalf(
         [manager EXCEPT
            !.ended = IF manager.initialised THEN @ \cup {manager.db[1]}
                      ELSE @,
            !.db = None])
  /\ UNCHANGED <<env, config, calls, explain, http>>

\* pool.end() resolved: this.pool = null
CloseEnded ==
  /\ manager.pc = "ending"
  /\ manager' = [manager EXCEPT !.ended = @ \cup {manager.closing[1]},
                                !.pool = None, !.pc = "idle",
                                !.closing = None, !.last = "close"]
  /\ UNCHANGED <<env, config, calls, explain, http>>

\* the calls made of the manager, in any order
ManagerNext ==
  \/ GetDatabase
  \/ GetPool
  \/ UseDb
  \/ CloseStart
  \/ CloseDestroyed
  \/ CloseEnded

ManagerSpec == Init /\ [][ManagerNext]_vars

(***************************************************************************)
(* Vocabulary of the properties.                                           *)
(***************************************************************************)
\* the call in slot s has been made and its input passed validateInput
Admitted(s) ==
  calls[s].pc # "idle" /\ calls[s].inputValidation = Some(TRUE)

\* the SQL text of the call in slot s
SqlOf(s) == calls[s].input[1].sql[1]

\* the call in slot s has invoked pool.query
Forwarded(s) == IsSome(calls[s].sent)

\* the call in slot s returned an error that contains x
FailedWith(s, x) ==
  /\ calls[s].pc = "done"
  /\ IsSome(calls[s].result[1].error)
  /\ Contains(calls[s].result[1].error[1], x)

\* the leading keyword of a text: its first word, in upper case
LeadingKeyword(text) ==
  LET t == TrimStart(text)
  IN IF t # <<>> /\ (Len(t) = 1 \/ t[2] \in WS) THEN ToUpperSym(t[1])
     ELSE "<none>"

\* no parameter of the call in slot s is NaN or an infinity
ParamsFinite(s) ==
  LET ps == calls[s].input[1].parameters
  IN IsSome(ps) => \A i \in DOMAIN ps[1] : ps[1][i] \notin {"nan", "infinity"}

\* the call in slot s returned from the catch block (pool.query rejected)
Caught(s) == calls[s].pc = "done" /\ IsSome(calls[s].result[1].code)

\* READ_ONLY is anything but the string "false"
ReadOnlyEnv == env.READ_ONLY # "false"

WriteKinds == {"insert", "update", "delete"}

\* the pieces of a text between its ";" symbols
RECURSIVE SplitSemi(_)
SplitSemi(text) ==
  IF \A i \in DOMAIN text : text[i] # ";" THEN <<text>>
  ELSE LET k == CHOOSE i \in DOMAIN text :
                  text[i] = ";" /\ \A j \in 1..(i - 1) : text[j] # ";"
       IN <<SubSeq(text, 1, k - 1)>> \o SplitSemi(SubSeq(text, k + 1, Len(text)))

\* the statements of a text: the pieces that hold more than whitespace and
\* comments
Statements(text) == SelectSeq(SplitSemi(text), LAMBDA piece : Lex(piece) # <<>>)

\* the text is an INSERT, with a leading comment or whitespace or not
IsInsert(text) ==
  \E p \in {<<>>} \cup Prefixes, t \in InsertTexts : text = p \o t

\* an UPDATE or DELETE node without a WHERE clause
LacksWhere(node) == node.type \in {"update", "delete"} /\ node.where = None

\* head, then one of the clauses ws, with a leading comment or whitespace
\* and a terminator or not
IsWriteWith(text, ws) ==
  \E p \in {<<>>} \cup Prefixes, h \in WriteHeads, w \in ws, e \in {<<>>, <<";">>} :
    text = p \o h \o w \o e

\* a is the beginning of b
IsPrefix(a, b) == Len(a) <= Len(b) /\ SubSeq(b, 1, Len(a)) = a

\* the call in slot s returned rows: a successful read-only response
ReadSucceeded(s) ==
  calls[s].pc = "done" /\ IsSome(calls[s].result[1].pagination)

\* the text of the call in slot s as applyPagination cleans it
CleanedSql(s) == StripSemis(Trim(SqlOf(s)))

\* the text sent for the call in slot s is its cleaned text with " LIMIT n"
\* appended, and possibly an OFFSET after it
LimitInjected(s, n) ==
  /\ Forwarded(s)
  /\ IsPrefix(CleanedSql(s) \o <<" ", "LIMIT", " ", ToString(n)>>,
              calls[s].sent[1].sql)

\* the text has a LIMIT or OFFSET clause: one of its tokens is the keyword
HasLimitingClause(text) ==
  \E i \in DOMAIN Lex(text) : ToUpperSym(Lex(text)[i]) \in {"LIMIT", "OFFSET"}

\* the call in slot s took the read path
OnReadPath(s) == Forwarded(s) /\ calls[s].path = "read"

\* the statement calls an aggregate function: a token COUNT, SUM, AVG, MAX
\* or MIN followed by an opening parenthesis
CallsAggregate(text) ==
  \E i \in 1..(Len(Lex(text)) - 1) :
    /\ ToUpperSym(Lex(text)[i]) \in {"COUNT", "SUM", "AVG", "MAX", "MIN"}
    /\ Lex(text)[i + 1] = "("

\* the statement has a GROUP BY clause: the two keywords as adjacent tokens
HasGroupByClause(text) ==
  \E i \in 1..(Len(Lex(text)) - 1) :
    /\ ToUpperSym(Lex(text)[i]) = "GROUP"
    /\ ToUpperSym(Lex(text)[i + 1]) = "BY"

\* the page size applyPagination is to use for the call in slot s
EffectivePageSize(s) ==
  Min(OrElse(calls[s].input[1].pageSize, config.defaultPageSize),
      config.maxPageSize)

\* the call in slot s reports the page size n to the caller
ReportsPageSize(s, n) ==
  ReadSucceeded(s) => calls[s].result[1].pagination[1].pageSize = n

\* applyPagination finds neither LIMIT nor OFFSET in the text of the call in
\* slot s and does not take it for a single-row aggregate
OpenToLimit(s) ==
  /\ ~IncludesAny(ToUpperCase(CleanedSql(s)), HasLimitText \cup HasOffsetText)
  /\ ~isSingleRowAggregate(ToUpperCase(CleanedSql(s)))

\* the parameter values a request may carry: null, a string, a boolean or a
\* finite number
AllowedParams == {"null", "string", "boolean", "number"}

\* the parameters of the call in slot s, none given being the empty list
ParamsOf(s) ==
  IF IsSome(calls[s].input[1].parameters) THEN calls[s].input[1].parameters[1]
  ELSE <<>>

\* the values pool.query was given for the call in slot s, none being the
\* empty list
SentParams(s) ==
  IF IsSome(calls[s].sent[1].params) THEN calls[s].sent[1].params[1] ELSE <<>>

\* the call in slot s was rejected for its parameters
RejectedForParams(s) ==
  /\ calls[s].pc = "done"
  /\ calls[s].result[1].error
       \in {Some(ErrParamType), Some(ErrParamFinite),
            Some(ErrInput("parameters"))}

\* the three shapes of a QueryOutput
IsRowsShape(r) ==
  /\ IsSome(r.rows) /\ IsSome(r.rowCount) /\ IsSome(r.pagination)
  /\ r.error = None /\ r.code = None /\ r.hint = None

IsCountShape(r) ==
  /\ IsSome(r.rowCount) /\ r.rows = None /\ r.pagination = None
  /\ r.error = None /\ r.code = None /\ r.hint = None

IsErrorShape(r) ==
  IsSome(r.error) /\ r.rows = None /\ r.rowCount = None /\ r.pagination = None

\* the statement of the call in slot s was accepted: its input, its SQL and
\* its parameters passed validation
Accepted(s) ==
  /\ Admitted(s)
  /\ IsSome(calls[s].sqlValidation) /\ calls[s].sqlValidation[1].isValid
  /\ \A i \in DOMAIN ParamsOf(s) : ParamsOf(s)[i] \in AllowedParams

\* one step of the call in slot s along the pipeline: from idle to awaiting
\* the gateway or to its result, from awaiting to its result with what was
\* sent left as it is, from its result back to idle
PipelineStep(s) ==
  /\ calls[s].pc = "idle" => calls'[s].pc \in {"idle", "awaiting", "done"}
  /\ calls[s].pc = "awaiting" =>
       \/ calls'[s] = calls[s]
       \/ /\ calls'[s].pc = "done"
          /\ calls'[s].input = calls[s].input
          /\ calls'[s].sent = calls[s].sent
          /\ calls'[s].queries = calls[s].queries
  /\ calls[s].pc = "done" =>
       calls'[s] = calls[s] \/ calls'[s].pc = "idle"

\* the symbols of a message that are not whitespace, in order
RECURSIVE Words(_)
Words(m) ==
  IF m = <<>> THEN <<>>
  ELSE IF Head(m) \in WS THEN Words(Tail(m))
  ELSE <<Head(m)>> \o Words(Tail(m))

\* the message has single spaces only, and none at either end
IsNormalised(m) ==
  /\ \A i \in DOMAIN m : m[i] \in WS => m[i] = " "
  /\ \A i \in 1..(Len(m) - 1) : ~(m[i] = " " /\ m[i + 1] = " ")
  /\ m # <<>> => (m[1] # " " /\ m[Len(m)] # " ")

\* the message of a value the catch block received
MessageOf(thrown) ==
  IF thrown.isError THEN thrown.message ELSE <<"Unknown error occurred">>

\* the first words validateSqlSafety decides on without parsing
KeywordOnly == DangerousKeywords \cup {"EXPLAIN", "MERGE", "UPSERT"}

(***************************************************************************)
(* C1 - pool.query is invoked only for a request whose input validation    *)
(* succeeded and for whose SQL validateSqlSafety returned isValid = true;  *)
(* a request the validator rejects makes no call to the gateway and the    *)
(* database runs nothing for it.                                           *)
(***************************************************************************)
C1_GatewayOnlyAfterAllow ==
  \A s \in Slots :
    /\ Forwarded(s) =>
         /\ calls[s].inputValidation = Some(TRUE)
         /\ IsSome(calls[s].sqlValidation)
         /\ calls[s].sqlValidation[1].isValid
         /\ validateSqlSafety(SqlOf(s)).isValid
    /\ (/\ IsSome(calls[s].sqlValidation)
        /\ ~calls[s].sqlValidation[1].isValid) =>
         ~Forwarded(s) /\ calls[s].executed = {}

\* an allowed write statement is at the gateway in read-write mode
C1_Witness ==
  \E s \in Slots :
    /\ calls[s].pc = "awaiting" /\ calls[s].path = "write"
    /\ calls[s].sqlValidation[1].isValid /\ ~ReadOnlyEnv

(***************************************************************************)
(* C2 - for every request with a well-formed input whose SQL has one of    *)
(* the sixteen dangerous operations as its leading keyword, in any letter  *)
(* case, queryTool returns, in either mode, an error containing "not       *)
(* allowed", with no rows and no rowCount, and pool.query is not invoked.  *)
(***************************************************************************)
C2_DangerousRejected ==
  \A s \in Slots :
    (Admitted(s) /\ LeadingKeyword(SqlOf(s)) \in DangerousKeywords) =>
      /\ FailedWith(s, "not allowed")
      /\ calls[s].result[1].rows = None
      /\ calls[s].result[1].rowCount = None
      /\ ~Forwarded(s)

\* a lower-case dangerous statement was rejected in read-write mode
C2_Witness ==
  \E s \in Slots :
    /\ Admitted(s) /\ ~ReadOnlyEnv
    /\ SqlOf(s) = <<"pragma", "\n", "users">>
    /\ FailedWith(s, "not allowed")

(***************************************************************************)
(* C3 - in read-only mode every statement forwarded to the gateway is a    *)
(* SELECT, WITH or EXPLAIN query, the database never executes an INSERT,   *)
(* UPDATE or DELETE, and every request that is an INSERT, UPDATE or DELETE *)
(* statement is rejected with an error containing "read-only mode".        *)
(***************************************************************************)
C3_ReadOnlyNeverWrites ==
  \A s \in Slots :
    ReadOnlyEnv =>
      /\ Forwarded(s) =>
           \A i \in DOMAIN Statements(calls[s].sent[1].sql) :
             ToUpperSym(Lex(Statements(calls[s].sent[1].sql)[i])[1])
               \in {"SELECT", "WITH", "EXPLAIN"}
      /\ calls[s].executed \cap WriteKinds = {}
      /\ (Admitted(s) /\ LeadingKeyword(SqlOf(s)) \in {"INSERT", "UPDATE", "DELETE"}
          /\ Astify(SqlOf(s)).ok) =>
           FailedWith(s, "read-only mode")

(***************************************************************************)
(* C4 - the mode is read-write only when READ_ONLY is exactly "false":     *)
(* config.app.readOnly is false for that value alone, an INSERT is         *)
(* rejected with "read-only mode" under every other value (unset, empty,   *)
(* "true", "yes", "1", "on", other text) and is forwarded under "false".   *)
(***************************************************************************)
C4_ReadWriteOnlyWhenFalse ==
  /\ config.readOnly = (env.READ_ONLY # "false")
  /\ \A s \in Slots :
       (Admitted(s) /\ IsInsert(SqlOf(s))) =>
         IF env.READ_ONLY = "false"
           THEN /\ calls[s].sqlValidation[1].isValid
                /\ ParamsFinite(s) => Forwarded(s) /\ calls[s].path = "write"
           ELSE FailedWith(s, "read-only mode") /\ ~Forwarded(s)

\* an INSERT was rejected although READ_ONLY is set to a value that is not
\* "true"
C4_Witness ==
  \E s \in Slots :
    /\ env.READ_ONLY \in {"FALSE", "", Unset}
    /\ Admitted(s) /\ IsInsert(SqlOf(s)) /\ FailedWith(s, "read-only mode")

(***************************************************************************)
(* C5 - in read-write mode a request whose SQL parses and whose first      *)
(* statement is an UPDATE or DELETE without a WHERE clause is rejected     *)
(* with an error containing "WHERE clause"; a text that contains such a    *)
(* statement at any place is never sent to the gateway.                    *)
(***************************************************************************)
C5_MissingWhereRejected ==
  \A s \in Slots :
    (Admitted(s) /\ ~ReadOnlyEnv /\ Astify(SqlOf(s)).ok) =>
      LET ast == Astify(SqlOf(s)).ast
      IN /\ LacksWhere(ast[1]) => FailedWith(s, "WHERE clause")
         /\ (\E i \in DOMAIN ast : LacksWhere(ast[i])) =>
              ~Forwarded(s) /\ calls[s].pc = "done"

\* a lower-case DELETE without WHERE was rejected in read-write mode
C5_Witness ==
  \E s \in Slots :
    /\ Admitted(s) /\ ~ReadOnlyEnv
    /\ SqlOf(s) = Sp(<<"delete", "from", "users">>)
    /\ FailedWith(s, "WHERE clause")

(***************************************************************************)
(* C6 - in read-write mode every UPDATE or DELETE whose WHERE clause is    *)
(* TRUE, a bare number, or an equality of two identical numbers, of two    *)
(* identical single-quoted strings, of two identical double-quoted         *)
(* identifiers or of two identical column names, in any letter case and    *)
(* with any whitespace around it, is rejected with an error containing     *)
(* "WHERE clause"; nothing is sent to the gateway and the database runs    *)
(* nothing.                                                                *)
(***************************************************************************)
C6_TrivialWhereRejected ==
  \A s \in Slots :
    (Admitted(s) /\ ~ReadOnlyEnv /\ IsWriteWith(SqlOf(s), TrivialWheres)) =>
      /\ FailedWith(s, "WHERE clause")
      /\ ~Forwarded(s)
      /\ calls[s].executed = {}

\* an UPDATE comparing a double-quoted identifier with itself was rejected
C6_Witness ==
  \E s \in Slots :
    /\ Admitted(s) /\ ~ReadOnlyEnv
    /\ SqlOf(s) = Sp(<<"update", "users", "set", "age", "=", "30">>)
                    \o <<" ", "WHERE", " ", "\"1\"", "=", "\"1\"">>
    /\ FailedWith(s, "WHERE clause")

(***************************************************************************)
(* C7 - in read-write mode every UPDATE or DELETE whose WHERE clause is    *)
(* present and has none of the trivial shapes is allowed by the validator, *)
(* goes to pool.query on the write path with its text unchanged but for    *)
(* the terminator, and, when pool.query resolves, returns rowCount with no *)
(* error, no rows and no pagination.                                       *)
(***************************************************************************)
C7_GuardedWriteAllowed ==
  \A s \in Slots :
    (Admitted(s) /\ ~ReadOnlyEnv /\ IsWriteWith(SqlOf(s), OtherWheres)) =>
      /\ calls[s].sqlValidation[1].isValid
      /\ ParamsFinite(s) =>
           /\ Forwarded(s)
           /\ calls[s].path = "write"
           /\ calls[s].sent[1].sql = StripSemis(Trim(SqlOf(s)))
      /\ (calls[s].pc = "done" /\ ~Caught(s) /\ ParamsFinite(s)) =>
           /\ calls[s].result[1].error = None
           /\ IsSome(calls[s].result[1].rowCount)
           /\ calls[s].result[1].rows = None
           /\ calls[s].result[1].pagination = None

\* a DELETE with a real predicate ran and two rows were reported
C7_Witness ==
  \E s \in Slots :
    /\ Admitted(s) /\ ~ReadOnlyEnv
    /\ IsWriteWith(SqlOf(s), OtherWheres)
    /\ calls[s].pc = "done"
    /\ calls[s].executed = {"delete"}
    /\ calls[s].result[1].rowCount = Some(2)

(***************************************************************************)
(* C8 - a statement whose leading keyword is MERGE or UPSERT is rejected   *)
(* in both modes and never sent to the gateway: in read-only mode the      *)
(* error contains "read-only mode", in read-write mode it is "MERGE and    *)
(* UPSERT operations are not currently supported".                         *)
(***************************************************************************)
C8_MergeUpsertRejected ==
  \A s \in Slots :
    (Admitted(s) /\ LeadingKeyword(SqlOf(s)) \in {"MERGE", "UPSERT"}) =>
      /\ ~Forwarded(s)
      /\ calls[s].executed = {}
      /\ IF ReadOnlyEnv THEN FailedWith(s, "read-only mode")
         ELSE FailedWith(s, "MERGE and UPSERT operations are not currently supported")

\* a lower-case upsert was rejected in read-only mode
C8_Witness ==
  \E s \in Slots :
    /\ Admitted(s) /\ ReadOnlyEnv
    /\ SqlOf(s) = Sp(<<"upsert", "into", "users">>)
    /\ FailedWith(s, "read-only mode")

(***************************************************************************)
(* C9 - as claimed: every SQL string the structural parser cannot parse is *)
(* rejected in both modes with an error containing "Invalid SQL syntax"    *)
(* and is never sent to the gateway.                                       *)
(***************************************************************************)
C9_EveryUnparseableIsSyntaxError ==
  \A s \in Slots :
    (Admitted(s) /\ ~Astify(SqlOf(s)).ok) =>
      FailedWith(s, "Invalid SQL syntax") /\ ~Forwarded(s)

(***************************************************************************)
(* C9, amended - every SQL string that is handed to the structural parser  *)
(* (it is not blank and its first word is not a dangerous operation,       *)
(* EXPLAIN, MERGE or UPSERT) and that the parser cannot parse is rejected  *)
(* in both modes with an error containing "Invalid SQL syntax" and is      *)
(* never sent to the gateway.                                              *)
(***************************************************************************)
C9_ParsedUnparseableIsSyntaxError ==
  \A s \in Slots :
    (/\ Admitted(s) /\ ~Astify(SqlOf(s)).ok
     /\ Trim(SqlOf(s)) # <<>>
     /\ LeadingKeyword(SqlOf(s)) \notin KeywordOnly) =>
      /\ FailedWith(s, "Invalid SQL syntax")
      /\ ~Forwarded(s)
      /\ calls[s].executed = {}

\* a DELETE with a WHERE keyword and no predicate was rejected as a syntax
\* error in read-write mode
C9_Witness ==
  \E s \in Slots :
    /\ Admitted(s) /\ ~ReadOnlyEnv
    /\ SqlOf(s) = Sp(<<"DELETE", "FROM", "users", "WHERE">>)
    /\ FailedWith(s, "Invalid SQL syntax")

(***************************************************************************)
(* C10 - one request yields one statement: a SQL text that contains more  *)
(* than one statement is rejected as a whole and no part of it reaches the *)
(* gateway, in both modes.                                                 *)
(***************************************************************************)
C10_BatchAlwaysRejected ==
  \A s \in Slots :
    (Admitted(s) /\ Len(Statements(SqlOf(s))) > 1) =>
      ~Forwarded(s) /\ (calls[s].pc = "done" => IsSome(calls[s].result[1].error))

(***************************************************************************)
(* C11 - in every successful read-only response, whatever page size was    *)
(* requested and whichever branch of applyPagination was taken, the        *)
(* reported pagination.pageSize is at most MAX_PAGE_SIZE, and so is every  *)
(* LIMIT value injected into the SQL.                                      *)
(***************************************************************************)
C11_PageSizeCapped ==
  \A s \in Slots :
    /\ ReadSucceeded(s) =>
         calls[s].result[1].pagination[1].pageSize <= config.maxPageSize
    /\ \A n \in 0..MaxNumeral :
         LimitInjected(s, n) => n <= config.maxPageSize

(***************************************************************************)
(* C12 - as claimed: if the SQL already contains a LIMIT or OFFSET clause,  *)
(* in any letter case, then for every requested page size and offset the   *)
(* text sent to the gateway equals the caller's text.                      *)
(***************************************************************************)
C12_LimitedTextSentVerbatim ==
  \A s \in Slots :
    (OnReadPath(s) /\ HasLimitingClause(SqlOf(s))) =>
      calls[s].sent[1].sql = SqlOf(s)

(***************************************************************************)
(* C12, amended - if the SQL already contains a LIMIT or OFFSET clause, in  *)
(* any letter case, then for every requested page size and offset the text *)
(* sent to the gateway is the caller's text with the surrounding           *)
(* whitespace and the trailing semicolons removed: no limiting clause is   *)
(* added.                                                                  *)
(***************************************************************************)
C12_LimitedTextOnlyCleaned ==
  \A s \in Slots :
    (OnReadPath(s) /\ HasLimitingClause(SqlOf(s))) =>
      calls[s].sent[1].sql = CleanedSql(s)

\* a lower-case "limit 2;" was sent without its terminator although a page
\* size of 60 and an offset of 3 were requested
C12_Witness ==
  \E s \in Slots :
    /\ OnReadPath(s)
    /\ SqlOf(s) = Sp(<<"select", "*", "from", "users", "limit", "2">>) \o <<";">>
    /\ calls[s].input[1].pageSize = Some(60)
    /\ calls[s].input[1].offset = Some(3)
    /\ calls[s].sent[1].sql = Sp(<<"select", "*", "from", "users", "limit", "2">>)

(***************************************************************************)
(* C13 - every syntactically valid SELECT with no limiting clause, in      *)
(* either access mode, is sent with a LIMIT appended whose value is at     *)
(* most MAX_PAGE_SIZE, and the response reports pagination.pageSize =      *)
(* min(requested page size or DEFAULT_PAGE_SIZE, MAX_PAGE_SIZE).  The two  *)
(* exceptions the specification makes elsewhere are left out: a statement  *)
(* that calls an aggregate without GROUP BY, and automatic limiting        *)
(* switched off with no page size requested.                               *)
(***************************************************************************)
C13_UnlimitedSelectGetsLimit ==
  \A s \in Slots :
    ( /\ OnReadPath(s)
      /\ LeadingKeyword(SqlOf(s)) = "SELECT"
      /\ ~HasLimitingClause(SqlOf(s))
      /\ ~(CallsAggregate(SqlOf(s)) /\ ~HasGroupByClause(SqlOf(s)))
      /\ (config.autoLimit \/ IsSome(calls[s].input[1].pageSize)) ) =>
        /\ LimitInjected(s, EffectivePageSize(s))
        /\ EffectivePageSize(s) <= config.maxPageSize
        /\ ReportsPageSize(s, EffectivePageSize(s))

(***************************************************************************)
(* C14 - a read-only statement that calls an aggregate function (COUNT,    *)
(* SUM, AVG, MAX, MIN) and has no GROUP BY is sent with no LIMIT/OFFSET    *)
(* appended and otherwise unchanged (its cleaned text), while the response *)
(* still reports the page size; when a GROUP BY is present the LIMIT is    *)
(* appended as for any other SELECT.  Statements that already carry a      *)
(* limiting clause, and automatic limiting switched off with no page size  *)
(* requested, are left out as the specification's other cases.             *)
(***************************************************************************)
C14_AggregatePassesUnlimited ==
  \A s \in Slots :
    ( /\ OnReadPath(s)
      /\ LeadingKeyword(SqlOf(s)) = "SELECT"
      /\ CallsAggregate(SqlOf(s))
      /\ ~HasLimitingClause(SqlOf(s))
      /\ (config.autoLimit \/ IsSome(calls[s].input[1].pageSize)) ) =>
        /\ ReportsPageSize(s, EffectivePageSize(s))
        /\ IF HasGroupByClause(SqlOf(s))
             THEN LimitInjected(s, EffectivePageSize(s))
             ELSE calls[s].sent[1].sql = CleanedSql(s)

(***************************************************************************)
(* C15 - with automatic limiting disabled (AUTO_LIMIT=false) a read-only   *)
(* statement sent without a requested page size has no LIMIT or OFFSET     *)
(* added: the gateway gets its cleaned text.  When the caller gives a page *)
(* size, a statement that is not already limited and is not a single-row   *)
(* aggregate gets the LIMIT appended although automatic limiting is off.   *)
(***************************************************************************)
C15_AutoLimitOffNeedsPageSize ==
  \A s \in Slots :
    (OnReadPath(s) /\ ~config.autoLimit) =>
      IF IsSome(calls[s].input[1].pageSize)
        THEN OpenToLimit(s) => LimitInjected(s, EffectivePageSize(s))
        ELSE calls[s].sent[1].sql = CleanedSql(s)

\* AUTO_LIMIT=false: a plain SELECT with no page size went out as written,
\* offset 3 requested or not
C15_Witness ==
  \E s \in Slots :
    /\ OnReadPath(s)
    /\ env.AUTO_LIMIT = "false"
    /\ SqlOf(s) = SelectUsers
    /\ calls[s].input[1].pageSize = None
    /\ calls[s].input[1].offset = Some(3)
    /\ calls[s].sent[1].sql = SelectUsers

(***************************************************************************)
(* C16 - in every successful read-only response pagination.hasMore is true *)
(* exactly when the number of rows returned equals the reported            *)
(* pagination.pageSize, and rowCount equals the number of rows returned;   *)
(* no rows, fewer rows or more rows than the page size give hasMore=false. *)
(***************************************************************************)
C16_HasMoreIffFullPage ==
  \A s \in Slots :
    ReadSucceeded(s) =>
      /\ calls[s].result[1].pagination[1].hasMore
           = (calls[s].result[1].rows[1]
                = calls[s].result[1].pagination[1].pageSize)
      /\ calls[s].result[1].rowCount = calls[s].result[1].rows

\* a page of 2 was asked for and 2 rows came back: hasMore is reported
C16_Witness ==
  \E s \in Slots :
    /\ ReadSucceeded(s)
    /\ calls[s].input[1].pageSize = Some(2)
    /\ LimitInjected(s, 2)
    /\ calls[s].result[1].rows = Some(2)
    /\ calls[s].result[1].pagination[1].pageSize = 2
    /\ calls[s].result[1].pagination[1].hasMore

(***************************************************************************)
(* C17 - a request whose parameters contain an element that is not null, a *)
(* string, a boolean or a finite number (an object, an array, a function,  *)
(* NaN, an infinity) ends with an error and no SQL is ever sent for it; a  *)
(* request whose parameters are all of the allowed shapes, the empty list  *)
(* and a list of 100 values included, is not rejected for its parameters   *)
(* and, when sent, carries them unchanged and in order.                    *)
(***************************************************************************)
C17_OnlyPrimitiveParamsForwarded ==
  \A s \in Slots :
    calls[s].pc # "idle" =>
      IF \E i \in DOMAIN ParamsOf(s) : ParamsOf(s)[i] \notin AllowedParams
        THEN /\ calls[s].pc = "done"
             /\ ~Forwarded(s)
             /\ calls[s].executed = {}
             /\ IsSome(calls[s].result[1].error)
        ELSE /\ ~RejectedForParams(s)
             /\ Forwarded(s) => SentParams(s) = ParamsOf(s)

\* a list of 100 strings reached pool.query as it was given
C17_Witness ==
  \E s \in Slots :
    /\ Forwarded(s)
    /\ Len(ParamsOf(s)) = 100
    /\ SentParams(s) = [i \in 1..100 |-> "string"]

(***************************************************************************)
(* C18 - on the read-only path, after the gateway has returned, the        *)
(* response is a rejection exactly when the UTF-8 byte length of the       *)
(* JSON-serialised rows is greater than MAX_PAYLOAD_SIZE; the rejection    *)
(* carries no rows and its message states the actual and the maximum size; *)
(* a payload rejection never occurs on the write path and never for a      *)
(* statement that was not executed.                                        *)
(***************************************************************************)
C18_PayloadRejectedIffTooLarge ==
  \A s \in Slots :
    calls[s].pc = "done" =>
      /\ IsSome(calls[s].payloadSize) =>
           IF calls[s].payloadSize[1] > config.maxPayloadSize
             THEN /\ calls[s].result[1].error
                       = Some(ErrPayload(calls[s].payloadSize[1]))
                  /\ calls[s].result[1].rows = None
             ELSE ReadSucceeded(s) /\ calls[s].result[1].error = None
      /\ FailedWith(s, "exceeds maximum allowed size") =>
           /\ calls[s].path = "read"
           /\ Forwarded(s) /\ calls[s].queries = 1
           /\ IsSome(calls[s].payloadSize)

\* 5 MB and one byte of rows came back under the default limit of 5 MB
C18_Witness ==
  \E s \in Slots :
    /\ calls[s].pc = "done"
    /\ calls[s].path = "read"
    /\ config.maxPayloadSize = 5 * 1024 * 1024
    /\ calls[s].payloadSize = Some(5 * 1024 * 1024 + 1)
    /\ FailedWith(s, "exceeds maximum allowed size")
    /\ calls[s].result[1].error[1]
         = <<"Query result payload (", "5", ".", "0", "0",
             "MB) exceeds maximum allowed size (", "5", ".", "0", "0",
             "MB). Please reduce pageSize or add more specific WHERE conditions to limit results.">>

(***************************************************************************)
(* C19 - every result of queryTool has exactly one of three shapes: rows,  *)
(* rowCount and pagination with no error, and then the statement went the  *)
(* read-only way; rowCount alone, and then it went the write way; or an    *)
(* error with no rows, no rowCount and no pagination.                      *)
(***************************************************************************)
C19_ResultHasOneShape ==
  \A s \in Slots :
    calls[s].pc = "done" =>
      /\ \/ IsRowsShape(calls[s].result[1]) /\ calls[s].path = "read"
         \/ IsCountShape(calls[s].result[1]) /\ calls[s].path = "write"
         \/ IsErrorShape(calls[s].result[1])
      /\ ~(IsRowsShape(calls[s].result[1]) /\ IsCountShape(calls[s].result[1]))
      /\ ~(IsRowsShape(calls[s].result[1]) /\ IsErrorShape(calls[s].result[1]))
      /\ ~(IsCountShape(calls[s].result[1]) /\ IsErrorShape(calls[s].result[1]))

\* a guarded DELETE succeeded: the result is the count of rows and nothing
\* else
C19_Witness ==
  \E s \in Slots :
    /\ calls[s].pc = "done"
    /\ calls[s].path = "write"
    /\ calls[s].executed = {"delete"}
    /\ calls[s].result[1] = AffectedResult(2)

(***************************************************************************)
(* C20 - each request runs through the pipeline once, without cycles, and  *)
(* ends in exactly one outcome: a call moves from idle to awaiting the     *)
(* gateway or straight to its result, from awaiting to its result, and a   *)
(* result is never replaced; pool.query is called at most once per         *)
(* request, exactly once when the statement was accepted and not at all    *)
(* when it was rejected, and what was sent is never sent again.            *)
(***************************************************************************)
C20_OnePassOneOutcome ==
  /\ [](\A s \in Slots :
          /\ calls[s].queries <= 1
          /\ calls[s].pc # "idle" =>
               /\ (calls[s].queries = 1) = Accepted(s)
               /\ (calls[s].queries = 1) = Forwarded(s)
          /\ (calls[s].pc = "done") = IsSome(calls[s].result))
  /\ [][\A s \in Slots : PipelineStep(s)]_vars

\* pool.query rejected: the call ended with that error after its one query
C20_Witness ==
  \E s \in Slots :
    /\ calls[s].pc = "done"
    /\ Caught(s)
    /\ Accepted(s)
    /\ calls[s].queries = 1
    /\ calls[s].executed = {}

(***************************************************************************)
(* C21 - queryTool never throws: every failure of the gateway (a syntax    *)
(* error of the engine, a constraint violation, a connection failure, a    *)
(* thrown value that is not an Error) ends the call with an error outcome  *)
(* whose message is the original message with every run of whitespace      *)
(* collapsed to one space and trimmed, or "Unknown error occurred" for a   *)
(* value that is not an Error.                                             *)
(***************************************************************************)
C21_FailureReturnedSanitised ==
  \A s \in Slots :
    /\ IsSome(calls[s].caught) =>
         /\ calls[s].pc = "done"
         /\ IsErrorShape(calls[s].result[1])
         /\ IsNormalised(calls[s].result[1].error[1])
         /\ Words(calls[s].result[1].error[1])
              = Words(MessageOf(calls[s].caught[1]))
         /\ ~calls[s].caught[1].isError =>
              calls[s].result[1].error[1] = <<"Unknown error occurred">>
    /\ calls[s].pc = "done" => IsSome(calls[s].result)

\* a constraint violation whose message came with blank runs and line
\* breaks was returned on one line
C21_Witness ==
  \E s \in Slots :
    /\ calls[s].pc = "done"
    /\ IsSome(calls[s].caught)
    /\ calls[s].caught[1].code = Some("23505")
    /\ calls[s].result[1].error
         = Some(<<"duplicate", " ", "key", " ", "value">>)
    /\ calls[s].result[1].code = Some("23505")

\* the text has one of the words explainQueryTool looks for, at any position
\* and in any letter case
HasBlockedWord(text) == IncludesAny(ToUpperCase(text), ExplainBlockedText)

\* explainQueryTool rejected the call as not being a SELECT
ExplainRefused ==
  /\ explain.pc = "done"
  /\ IsSome(explain.result[1].error)
  /\ Contains(explain.result[1].error[1],
              "EXPLAIN is only allowed for SELECT queries")
  /\ explain.result[1].plan = None

\* the call of explainQueryTool is for a SELECT or WITH query and its
\* pool.query did not fail
ExplainOfSelect ==
  /\ explain.pc = "done"
  /\ IsSome(explain.input[1].sql)
  /\ LeadingKeyword(explain.input[1].sql[1]) \in {"SELECT", "WITH"}
  /\ explain.caught = None

(***************************************************************************)
(* C22 - as claimed: explainQueryTool sends nothing to the database when   *)
(* the SQL text contains, in any letter case and at any position, one of   *)
(* INSERT, UPDATE, DELETE, DROP, CREATE, ALTER or TRUNCATE, and returns    *)
(* the error "EXPLAIN is only allowed for SELECT queries" and no plan; for *)
(* SELECT and WITH queries it returns a plan and no error (unless the      *)
(* gateway itself fails).                                                  *)
(***************************************************************************)
C22_SelectAlwaysPlanned ==
  /\ (explain.pc # "idle" /\ IsSome(explain.input[1].sql)
        /\ HasBlockedWord(explain.input[1].sql[1])) =>
       (explain.sent = None /\ ExplainRefused)
  /\ ExplainOfSelect =>
       (IsSome(explain.result[1].plan) /\ explain.result[1].error = None)

(***************************************************************************)
(* C22, amended - explainQueryTool sends nothing to the database when the  *)
(* SQL text contains, in any letter case and at any position, one of       *)
(* INSERT, UPDATE, DELETE, DROP, CREATE, ALTER or TRUNCATE, and returns    *)
(* the error "EXPLAIN is only allowed for SELECT queries" and no plan; for *)
(* a single SELECT or WITH statement whose text contains none of these     *)
(* words it sends one EXPLAIN of the text and, unless the gateway fails,   *)
(* returns the plan and no error.                                          *)
(***************************************************************************)
C22_ExplainOnlyWithoutWriteWords ==
  /\ (explain.pc # "idle" /\ IsSome(explain.input[1].sql)
        /\ HasBlockedWord(explain.input[1].sql[1])) =>
       (explain.sent = None /\ ExplainRefused)
  /\ (ExplainOfSelect /\ ~HasBlockedWord(explain.input[1].sql[1])
        /\ ~IncludesAny(explain.input[1].sql[1], {";"})) =>
       /\ IsSome(explain.result[1].plan) /\ explain.result[1].error = None
       /\ explain.sent = Some(ExplainSql(explain.input[1]))

\* a SELECT followed by a DELETE was refused and nothing was sent
C22_Witness ==
  /\ ExplainRefused
  /\ explain.sent = None
  /\ explain.input[1].sql[1]
       = SelectUsers \o <<";", " ">> \o Sp(<<"DELETE", "FROM", "users">>)

\* the call in slot s stands where it would stand had it run alone: its
\* validation decision, the SQL and values sent and its page are those
\* queryTool computes from its own input
AsIfAlone(s) ==
  /\ calls[s].sqlValidation
       = queryToolStart(calls[s].input[1]).sqlValidation
  /\ calls[s].sent = queryToolStart(calls[s].input[1]).sent
  /\ calls[s].path = queryToolStart(calls[s].input[1]).path
  /\ calls[s].page = queryToolStart(calls[s].input[1]).page
  /\ ReadSucceeded(s) =>
       /\ calls[s].result[1].pagination[1].pageSize
            = queryToolStart(calls[s].input[1]).page[1].actualPageSize
       /\ calls[s].result[1].pagination[1].offset
            = queryToolStart(calls[s].input[1]).page[1].actualOffset

(***************************************************************************)
(* C23 - concurrent requests do not interfere: in every interleaving of    *)
(* several queryTool calls around their one suspension point, the gateway  *)
(* call, the validation decision, the rewritten SQL and the reported       *)
(* pagination of each request are those it would have had running alone.   *)
(***************************************************************************)
C23_CallsDoNotInterfere ==
  \A s \in Slots : calls[s].pc # "idle" => AsIfAlone(s)

\* a read with page size 2 ended with its own pagination while a guarded
\* DELETE, started meanwhile, waits for the gateway
C23_Witness ==
  /\ ReadSucceeded(1)
  /\ calls[1].input[1].pageSize = Some(2)
  /\ calls[1].input[1].offset = Some(3)
  /\ calls[1].result[1].pagination[1].pageSize = 2
  /\ calls[1].result[1].pagination[1].offset = 3
  /\ calls[2].pc = "awaiting"
  /\ calls[2].path = "write"

\* the validation decision of the call in slot s has been taken
Decided(s) == Admitted(s) /\ IsSome(calls[s].sqlValidation)

(***************************************************************************)
(* C24 - the access mode is fixed at process start: across any sequence of *)
(* requests the mode validateSqlSafety enforces is the mode resolved at    *)
(* startup (config.app.readOnly, the one of the banner and of the query    *)
(* tool's description), and a validation decision depends only on the      *)
(* statement and that mode: the same statement gets the same decision in   *)
(* every request, the read-only reason is given only in read-only mode and *)
(* a statement goes the write way only in read-write mode.                 *)
(***************************************************************************)
C24_ModeFixedAtStartup ==
  /\ isReadOnlyMode = config.readOnly
  /\ config = LoadConfig(env)
  /\ \A s, t \in Slots :
       (Decided(s) /\ Decided(t) /\ SqlOf(s) = SqlOf(t)) =>
         calls[s].sqlValidation = calls[t].sqlValidation
  /\ \A s \in Slots :
       /\ FailedWith(s, "read-only mode") => config.readOnly
       /\ (Forwarded(s) /\ calls[s].path = "write") => ~config.readOnly

\* READ_ONLY=FALSE is read-only mode: a guarded DELETE was refused for the
\* mode, and the same DELETE asked again later is refused the same way
C24_Witness ==
  /\ env.READ_ONLY = "FALSE"
  /\ config.readOnly
  /\ FailedWith(1, "read-only mode")
  /\ FailedWith(2, "read-only mode")
  /\ SqlOf(1) = Sp(<<"DELETE", "FROM", "users", "WHERE", "id", "=", "1">>)
  /\ SqlOf(2) = SqlOf(1)

\* the last request answered was not an initialize request and its header
\* was missing or named no session of the table
UnknownSessionRequest ==
  /\ IsSome(http.last)
  /\ ~http.last[1].isInit
  /\ ~http.last[1].active

(***************************************************************************)
(* C25 - every POST /mcp that is not an initialize request, and every GET  *)
(* and DELETE /mcp, whose mcp-session-id header is missing or names no     *)
(* active session is answered 400 and handed to no transport.              *)
(***************************************************************************)
C25_UnknownSessionGets400 ==
  UnknownSessionRequest =>
    /\ http.last[1].status = "400"
    /\ http.last[1].handled = None

(***************************************************************************)
(* C26 - the session table holds exactly the sessions an initialize        *)
(* request created and whose transport has not closed: one step adds at    *)
(* most one session, under an ID no session had before; the ID of a closed *)
(* session is out of the table and a later request with it is answered 400.*)
(***************************************************************************)
C26_TableIsLiveSessions ==
  /\ [](/\ http.transports = http.created \ http.closed
        /\ http.created \subseteq http.issued
        /\ http.connecting \cap http.created = {}
        /\ (UnknownSessionRequest /\ IsSome(http.last[1].header)
                                  /\ http.last[1].header[1] \in http.closed)
             => http.last[1].status = "400")
  /\ [][/\ Cardinality(http'.transports \ http.transports) <= 1
        /\ (http'.transports \ http.transports)
             \cap (http.created \cup http.closed \cup http.transports) = {}
        /\ http.closed \subseteq http'.closed]_vars

\* session 1 was created and closed, session 2 is live, and a GET with the
\* ID of session 1 has been answered 400
C26_Witness ==
  /\ http.created = {"1", "2"}
  /\ http.closed = {"1"}
  /\ http.transports = {"2"}
  /\ IsSome(http.last)
  /\ http.last[1].method = "GET"
  /\ http.last[1].header = Some("1")
  /\ http.last[1].status = "400"

(***************************************************************************)
(* C30 - DatabaseManager keeps the database handle and the pool together:  *)
(* whenever no close() is under way both are held or both are absent;      *)
(* after close() has completed neither is held; and getPool() returns a    *)
(* pool that has not ended.                                                *)
(***************************************************************************)
C30_HandleAndPoolTogether ==
  /\ manager.pc = "idle" => (IsSome(manager.db) <=> IsSome(manager.pool))
  /\ manager.last = "close" =>
       (manager.db = None /\ manager.pool = None)
  /\ manager.last = "getPool" =>
       (IsSome(manager.got) /\ ~manager.gotEnded)

\* one of the statements of the text is a dangerous operation: its first
\* token is one of the dangerous keywords and more tokens follow
HasDangerousStatement(text) ==
  \E i \in DOMAIN Statements(text) :
    /\ Len(Lex(Statements(text)[i])) > 1
    /\ ToUpperSym(Lex(Statements(text)[i])[1]) \in DangerousKeywords

(***************************************************************************)
(* C27 - rejection of a dangerous operation comes before every rule of the *)
(* mode: whenever the SQL of a request has a dangerous statement, alone or *)
(* in a batch after other statements, the request is not forwarded and the *)
(* error it returns contains "not allowed", in both modes, and is neither  *)
(* the read-only reason nor a WHERE-clause reason.                         *)
(***************************************************************************)
C27_DangerousReasonFirst ==
  \A s \in Slots :
    (Decided(s) /\ HasDangerousStatement(SqlOf(s))) =>
      /\ ~Forwarded(s)
      /\ calls[s].pc = "done" =>
           /\ FailedWith(s, "not allowed")
           /\ ~FailedWith(s, "read-only mode")
           /\ ~FailedWith(s, "WHERE clause")

(***************************************************************************)
(* C28 - every request whose SQL has EXPLAIN as its leading keyword is     *)
(* allowed by validateSqlSafety in read-only and in read-write mode,       *)
(* whatever follows the keyword, and goes the read-only way: the text sent *)
(* is the one applyPagination gives, a payload over MAX_PAYLOAD_SIZE is    *)
(* rejected, and a result without error has rows and pagination.           *)
(***************************************************************************)
C28_ExplainAlwaysReadPath ==
  \A s \in Slots :
    (Admitted(s) /\ LeadingKeyword(SqlOf(s)) = "EXPLAIN") =>
      /\ calls[s].sqlValidation = Some(Valid)
      /\ Accepted(s) =>
           /\ OnReadPath(s)
           /\ calls[s].sent[1].sql =
                applyPagination(SqlOf(s), calls[s].input[1].pageSize,
                                calls[s].input[1].offset).sql
      /\ calls[s].pc = "done" =>
           /\ (IsSome(calls[s].payloadSize)
               /\ calls[s].payloadSize[1] > config.maxPayloadSize) =>
                FailedWith(s, "exceeds maximum allowed size")
           /\ calls[s].result[1].error = None => IsRowsShape(calls[s].result[1])

\* in read-write mode EXPLAIN SELECT * FROM users was sent with a LIMIT and
\* came back as rows
C28_Witness ==
  \E s \in Slots :
    /\ Admitted(s)
    /\ ~ReadOnlyEnv
    /\ SqlOf(s) = Sp(<<"EXPLAIN", "SELECT", "*", "FROM", "users">>)
    /\ LimitInjected(s, config.defaultPageSize)
    /\ ReadSucceeded(s)
    /\ IsRowsShape(calls[s].result[1])

\* the statement types validateSqlSafety saw in an accepted text: EXPLAIN
\* for a text it accepted on its first word, else the types of the parsed
\* statements
ClassifiedTypes(text) ==
  IF FirstWord(ToUpperCase(Trim(text))) = "EXPLAIN" THEN {"EXPLAIN"}
  ELSE {ToUpperSym(Astify(Trim(text)).ast[i].type) :
          i \in DOMAIN Astify(Trim(text)).ast}

(***************************************************************************)
(* C29 - the routing of queryTool agrees with the classification of the    *)
(* validator: an accepted request goes the read-only way (applyPagination, *)
(* payload check, rows and pagination) exactly when every statement the    *)
(* validator saw in it is a SELECT, WITH or EXPLAIN, and the text sent for *)
(* a request with an INSERT, UPDATE or DELETE statement has no LIMIT       *)
(* appended.                                                               *)
(***************************************************************************)
C29_RoutingAgreesWithValidator ==
  \A s \in Slots :
    (Accepted(s) /\ Forwarded(s)) =>
      /\ (ClassifiedTypes(SqlOf(s)) \subseteq {"SELECT", "WITH", "EXPLAIN"})
           <=> calls[s].path = "read"
      /\ ClassifiedTypes(SqlOf(s)) \cap {"INSERT", "UPDATE", "DELETE"} # {} =>
           calls[s].sent[1].sql = CleanedSql(s)

====
